---- MODULE Spec2Model ----
(***************************************************************************)
(* A model of the lets-fps simulation core: the local capsule body, the    *)
(* projectile pool, the remote-player registry and the broadcast channel    *)
(* client.                                                                  *)
(*                                                                          *)
(* Numbers.  Lengths and velocities are fixed-point integers with Scale     *)
(* steps per world unit (1 step = 0.01 unit).  Positions handed to the      *)
(* broadcast layer are in thousandths of a unit.                            *)
(* The clock counts TicksPerMs ticks per millisecond, so that the           *)
(* broadcast interval 1000/30 ms is the whole number 100.                   *)
(***************************************************************************)
EXTENDS Integers, Sequences, FiniteSets, TLC

(* ------------------------------------------------------------------ *)
(* Fixed-point arithmetic                                               *)
(* ------------------------------------------------------------------ *)

Scale == 100

TicksPerMs == 3

\* Division rounding toward zero (b > 0).
QDiv(a, b) == IF a >= 0 THEN a \div b ELSE -((-a) \div b)

Abs(a) == IF a < 0 THEN -a ELSE a

Min(a, b) == IF a < b THEN a ELSE b

Max(a, b) == IF a > b THEN a ELSE b

\* F applied to the value of x, with x evaluated once.
Let1(x, F(_)) == CHOOSE y \in {F(v) : v \in {x}} : TRUE

\* The largest k in 0..top with (base + k * unit)^2 <= n.
SqrtDigit(n, base, unit, top) ==
    CHOOSE k \in 0..top :
        /\ (base + k * unit) * (base + k * unit) <= n
        /\ (k = top \/ (base + (k + 1) * unit) * (base + (k + 1) * unit) > n)

\* Math.sqrt on a squared fixed-point length: the floor of the square root
\* (for 0 <= n < 2^31), found digit by digit in base 32.
Sqrt(n) ==
    Let1(SqrtDigit(n, 0, 1024, 45), LAMBDA a :
        Let1(a * 1024 + 32 * SqrtDigit(n, a * 1024, 32, 31), LAMBDA b :
            b + SqrtDigit(n, b, 1, 31)))

Vec(x, y, z) == <<x, y, z>>

Zero3 == <<0, 0, 0>>

VAdd(a, b) == <<a[1] + b[1], a[2] + b[2], a[3] + b[3]>>

VSub(a, b) == <<a[1] - b[1], a[2] - b[2], a[3] - b[3]>>

VNeg(a) == <<-a[1], -a[2], -a[3]>>

\* Raw dot product (in Scale^2 steps).
Dot2(a, b) == a[1] * b[1] + a[2] * b[2] + a[3] * b[3]

\* Vector3.dot of a unit-scaled vector with a fixed-point vector.
Dot(a, b) == QDiv(Dot2(a, b), Scale)

LengthSq(a) == Dot2(a, a)

Length(a) == Sqrt(LengthSq(a))

DistanceToSquared(a, b) == LengthSq(VSub(a, b))

\* Vector3.multiplyScalar with a fixed-point scalar k (k = Scale is 1.0).
MultiplyScalar(a, k) ==
    <<QDiv(a[1] * k, Scale), QDiv(a[2] * k, Scale), QDiv(a[3] * k, Scale)>>

\* Vector3.addScaledVector(b, k).
AddScaledVector(a, b, k) == VAdd(a, MultiplyScalar(b, k))

\* Vector3.normalize: a zero vector stays zero (three.js divides by length || 1).
Normalize(a) ==
    LET len == Length(a)
    IN  IF len = 0 THEN a
        ELSE <<QDiv(a[1] * Scale, len), QDiv(a[2] * Scale, len), QDiv(a[3] * Scale, len)>>

\* Line3.closestPointToPoint(point, true, target): the clamped projection.
ClosestPointToPoint(start, end, point) ==
    LET d  == VSub(end, start)
        dd == Dot2(d, d)
        tn == Dot2(VSub(point, start), d)
        cn == IF tn < 0 THEN 0 ELSE IF tn > dd THEN dd ELSE tn
    IN  IF dd = 0 THEN start
        ELSE <<start[1] + QDiv(d[1] * cn, dd),
               start[2] + QDiv(d[2] * cn, dd),
               start[3] + QDiv(d[3] * cn, dd)>>

(* ------------------------------------------------------------------ *)
(* Program constants                                                    *)
(* ------------------------------------------------------------------ *)

\* physics.js: GRAVITY = 30 units/s^2.
GRAVITY == 30 * Scale

\* physics.js: STEPS_PER_FRAME.
STEPS_PER_FRAME == 5

\* engine.createProjectile: radius 0.2.
ProjectileRadius == 20

\* engine.createProjectile: lifetime 40000 ms.
Lifetime == 40000 * TicksPerMs

\* engine.createProjectile: the pool limit.
MaxProjectiles == 100

\* engine.updateProjectiles: the world floor bound y < -50.
FloorBound == -50 * Scale

\* physics.resolveSphereCollision: the self-hit grace period, 200 ms.
GracePeriod == 200 * TicksPerMs

\* PlayerPhysics collider radius 0.35.
PlayerRadius == 35

\* PlayerPhysics.reset: the spawn capsule.
SpawnCollider == [start |-> Vec(0, 500, 0), end |-> Vec(0, 565, 0), radius |-> PlayerRadius]

(* ------------------------------------------------------------------ *)
(* State                                                                *)
(* ------------------------------------------------------------------ *)

VARIABLES
    now,                \* performance.now(), in clock ticks
    collider,           \* PlayerPhysics.collider: [start, end, radius]
    velocity,           \* PlayerPhysics.velocity
    onFloor,            \* PlayerPhysics.onFloor
    projectiles,        \* GameEngine.projectiles, in array order
    players,            \* RemotePlayersManager.players, in Map insertion order
    channel,            \* MultiplayerManager.channel: "none" or "open"
    lastBroadcastTime,  \* MultiplayerManager.lastBroadcastTime
    lastPosition,       \* MultiplayerManager.lastPosition
    presenceState,      \* the roster channel.presenceState() returns (set of ids)
    sent,               \* every message handed to channel.send, in order
    timers,             \* number of pending setTimeout broadcasts of onPlayerJoin
    hitLog,             \* every projectile-avatar contact so far, in order
    session,            \* where initGame and connect() stand, and their timers
    inbox,              \* position messages of other peers not yet delivered here
    created,            \* number of createProjectile calls so far (names the spheres)
    steps,              \* number of simulation steps taken so far
    last                \* the last operation executed and what it observed

bodyVars == <<collider, velocity, onFloor>>

netVars == <<channel, lastBroadcastTime, lastPosition, presenceState, sent, timers>>

vars == <<now, collider, velocity, onFloor, projectiles, players, channel,
          lastBroadcastTime, lastPosition, presenceState, sent, timers, hitLog, session, inbox,
          created, steps, last>>

\* A projectile as createProjectile builds it.  owner is only ever written by
\* PlayerController.shoot.
Sphere(id, center, vel, t) ==
    [id |-> id, center |-> center, radius |-> ProjectileRadius, velocity |-> vel,
     hitSet |-> {}, spawnTime |-> t, lifetime |-> Lifetime, owner |-> "none"]

NoOp == [op |-> "none"]

(* ------------------------------------------------------------------ *)
(* PlayerPhysics.resolveSphereCollision: the three definitions          *)
(* ------------------------------------------------------------------ *)

\* Each takes the body [collider, velocity], the sphere and the time and
\* returns [body, sphere] as the call leaves them.

Body == [collider |-> collider, velocity |-> velocity]

\* physics.js, first definition: kinematic avatar, restitution 0.6.
ResolveSphereCollision(body, sphere, t) ==
    IF sphere.owner = "local" /\ t - sphere.spawnTime < GracePeriod
    THEN [body |-> body, sphere |-> sphere]
    ELSE
    LET closestPoint == ClosestPointToPoint(body.collider.start, body.collider.end, sphere.center)
        r    == body.collider.radius + sphere.radius
        d2   == DistanceToSquared(closestPoint, sphere.center)
        dist == Sqrt(d2)
        normalVector == IF dist = 0 THEN Vec(Scale, 0, 0)
                        ELSE Normalize(VSub(closestPoint, sphere.center))
        vRelDotN == Dot(VSub(body.velocity, sphere.velocity), normalVector)
        \* j = -(1 + 0.6) * vRelDotN; impulse = normalVector * (-j)
        bounced == AddScaledVector(sphere.velocity, normalVector, QDiv(16 * vRelDotN, 10))
        capped  == IF LengthSq(bounced) > 2500 * Scale * Scale
                   THEN MultiplyScalar(Normalize(bounced), 50 * Scale)
                   ELSE bounced
        newVel  == IF vRelDotN < 0 THEN capped ELSE sphere.velocity
        overlap == r - dist
    IN  IF d2 < r * r
        THEN [body   |-> body,
              sphere |-> [sphere EXCEPT !.velocity = newVel,
                                        !.center = AddScaledVector(@, normalVector, -overlap)]]
        ELSE [body |-> body, sphere |-> sphere]

\* physics.js, second definition: one pass of its loop over the point `point`.
\* st = [vel, sv, sc, v1]: this.velocity, sphere.velocity, sphere centre and the
\* scratch vector1, which also holds the capsule centre the loop visits last.
SphereLoopStep2(st, point, isScratch, r) ==
    LET d2 == DistanceToSquared(point, st.sc)
        \* vector1.copy(point).sub(sphereCenter).normalize().negate()
        v1new == VNeg(Normalize(VSub(point, st.sc)))
        \* when point is vector1 itself, it has just been overwritten
        pt == IF isScratch THEN v1new ELSE point
        normalVector == Normalize(VSub(pt, st.sc))
        v1 == MultiplyScalar(normalVector, Dot(normalVector, st.vel))
        v2 == MultiplyScalar(normalVector, Dot(normalVector, st.sv))
        d  == QDiv(r - Sqrt(d2), 2)
    IN  IF d2 < r * r
        THEN [vel |-> VSub(VAdd(st.vel, v2), v1),
              sv  |-> VSub(VAdd(st.sv, v1), v2),
              sc  |-> AddScaledVector(st.sc, normalVector, -d),
              v1  |-> v1new]
        ELSE st

ResolveSphereCollision2(body, sphere, t) ==
    LET center == <<QDiv(body.collider.start[1] + body.collider.end[1], 2),
                    QDiv(body.collider.start[2] + body.collider.end[2], 2),
                    QDiv(body.collider.start[3] + body.collider.end[3], 2)>>
        r  == body.collider.radius + sphere.radius
        s0 == [vel |-> body.velocity, sv |-> sphere.velocity, sc |-> sphere.center, v1 |-> center]
        s1 == SphereLoopStep2(s0, body.collider.start, FALSE, r)
        s2 == SphereLoopStep2(s1, body.collider.end, FALSE, r)
        s3 == SphereLoopStep2(s2, s2.v1, TRUE, r)
    IN  [body   |-> [body EXCEPT !.velocity = s3.vel],
         sphere |-> [sphere EXCEPT !.velocity = s3.sv, !.center = s3.sc]]

\* part_002: the avatar as three spheres, plain reflection, first hit only.
SphereHit3(sphere, point, r) ==
    LET d2 == DistanceToSquared(point, sphere.center)
        normal == Normalize(VSub(point, sphere.center))
        sphereVelNormal == MultiplyScalar(normal, Dot(normal, sphere.velocity))
        d == r - Sqrt(d2)
    IN  [sphere EXCEPT !.velocity = VSub(VSub(@, sphereVelNormal), sphereVelNormal),
                       !.center = AddScaledVector(@, normal, -d)]

ResolveSphereCollision3(body, sphere, t) ==
    IF sphere.owner = "local" /\ t - sphere.spawnTime < GracePeriod
    THEN [body |-> body, sphere |-> sphere]
    ELSE
    LET center == <<QDiv(body.collider.start[1] + body.collider.end[1], 2),
                    QDiv(body.collider.start[2] + body.collider.end[2], 2),
                    QDiv(body.collider.start[3] + body.collider.end[3], 2)>>
        r   == body.collider.radius + sphere.radius
        Hit(p) == DistanceToSquared(p, sphere.center) < r * r
    IN  [body   |-> body,
         sphere |-> IF Hit(body.collider.start) THEN SphereHit3(sphere, body.collider.start, r)
                    ELSE IF Hit(body.collider.end) THEN SphereHit3(sphere, body.collider.end, r)
                    ELSE IF Hit(center) THEN SphereHit3(sphere, center, r)
                    ELSE sphere]

(* ------------------------------------------------------------------ *)
(* RemotePlayersManager: colliders                                      *)
(* ------------------------------------------------------------------ *)

\* The three non-finite values of a JavaScript number, kept as integers no
\* finite quantity of the model reaches.
NaN == 2000000011

PosInf == 2000000033

NegInf == -2000000033

\* isFinite(x).
IsFiniteNum(x) == x # NaN /\ x # PosInf /\ x # NegInf

Finite3(v) == IsFiniteNum(v[1]) /\ IsFiniteNum(v[2]) /\ IsFiniteNum(v[3])

\* getRemoteColliders: height 1.8.
RemoteHeight == 180

\* getRemoteColliders: the radius used while player.radius is unset.
DefaultRemoteRadius == 35

\* One collider of getRemoteColliders.  id is the player's username; key is the
\* Map key of the player the collider was built from, which the code does not
\* put in the collider (the properties refer to it).
ColliderOf(p) ==
    LET radius == IF p.radius = 0 THEN DefaultRemoteRadius ELSE p.radius
    IN  [id     |-> p.username,
         start  |-> Vec(p.meshPos[1], p.meshPos[2] + radius, p.meshPos[3]),
         end    |-> Vec(p.meshPos[1], p.meshPos[2] + RemoteHeight - radius, p.meshPos[3]),
         radius |-> radius,
         key    |-> p.userId]

\* A getRemoteColliders that returns no collider.
GetRemoteCollidersNone(ps) == <<>>

RECURSIVE GetRemoteColliders(_)
GetRemoteColliders(ps) ==
    IF ps = <<>> THEN <<>>
    ELSE IF Finite3(Head(ps).meshPos)
         THEN <<ColliderOf(Head(ps))>> \o GetRemoteColliders(Tail(ps))
         ELSE GetRemoteColliders(Tail(ps))

(* ------------------------------------------------------------------ *)
(* GameEngine: projectiles                                              *)
(* ------------------------------------------------------------------ *)

\* engine.getDeltaTime: the frame delta is capped at 0.05 s (in ms here).
MaxFrameDelta == 50

\* Game.jsx gameLoop: the substep length of a capped frame, in ms.
SubStepDelta == MaxFrameDelta \div STEPS_PER_FRAME

\* createPlaceholderWorld: the ground plane is 100 x 100 units at y = 0.
GroundHalfSize == 50 * Scale

\* worldOctree.sphereIntersect against the placeholder ground plane: the
\* plane is hit while |center.y| <= radius; the result is the push-out vector,
\* its length as depth and its direction as normal (zero at depth 0).
WorldSphereIntersect(center, radius) ==
    IF /\ Abs(center[1]) <= GroundHalfSize
       /\ Abs(center[3]) <= GroundHalfSize
       /\ Abs(center[2]) <= radius
    THEN [hit |-> TRUE,
          normal |-> IF radius - center[2] = 0 THEN Zero3 ELSE Vec(0, Scale, 0),
          depth |-> radius - center[2]]
    ELSE [hit |-> FALSE, normal |-> Zero3, depth |-> 0]

\* Math.exp(-1.5 * deltaTime) - 1 in millionths, for the substep lengths used.
ProjectileDamping(dt) == IF dt = 10 THEN -14889 ELSE QDiv(-15 * dt * 1000, 10)

\* v * dt for dt in ms.
Step(v, dt) == <<QDiv(v[1] * dt, 1000), QDiv(v[2] * dt, 1000), QDiv(v[3] * dt, 1000)>>

\* The knockback impulse of resolveRemoteCollisions: direction -normal with
\* +0.5 added to y, renormalised, scaled by 15 + 0.5 * min(|velocity|, 50) of
\* the sphere's velocity at that point of the code.
KnockbackImpulse(normal, sphereVelocity) ==
    LET speed == Min(Length(sphereVelocity), 50 * Scale)
        impulseMag == 15 * Scale + QDiv(speed, 2)
        dir == VAdd(VNeg(normal), Vec(0, QDiv(Scale, 2), 0))
    IN  MultiplyScalar(Normalize(dir), impulseMag)

\* A resolveRemoteCollisions that leaves the hit-set as it was.
MarkHitForgotten(hitSet, id) == hitSet

\* sphere.hitSet.add(remote.id).
MarkHit(hitSet, id) == hitSet \cup {id}

\* resolveRemoteCollisions, the body of its loop for one collider.
\* acc = [sphere, contacts]; contacts are the collisions detected, in order,
\* each with called = TRUE when onProjectileHit(id, impulse) was called for it.
RemoteCollisionStep(acc, remote, hasCallback) ==
    LET sphere == acc.sphere
        closestPoint == ClosestPointToPoint(remote.start, remote.end, sphere.center)
        r  == remote.radius + sphere.radius
        d2 == DistanceToSquared(closestPoint, sphere.center)
        n0 == Normalize(VSub(sphere.center, closestPoint))
        normal == IF LengthSq(n0) = 0 THEN Vec(0, Scale, 0) ELSE n0
        vDotN == Dot(sphere.velocity, normal)
        \* addScaledVector(normal, -vDotN * 1.5)
        bounced == AddScaledVector(sphere.velocity, normal, QDiv(-15 * vDotN, 10))
        overlap == r - Sqrt(d2)
        moved == [sphere EXCEPT !.velocity = bounced,
                                !.center = AddScaledVector(@, normal, overlap)]
        fire == hasCallback /\ remote.id \notin sphere.hitSet
    IN  IF d2 < r * r
        THEN [sphere   |-> IF fire THEN [moved EXCEPT !.hitSet = MarkHit(@, remote.id)]
                           ELSE moved,
              contacts |-> Append(acc.contacts,
                                  [projectile |-> sphere.id, id |-> remote.id,
                                   key |-> remote.key, called |-> fire,
                                   impulse |-> IF fire THEN KnockbackImpulse(normal, bounced)
                                               ELSE Zero3])]
        ELSE acc

RECURSIVE ResolveRemoteCollisions(_, _, _)
ResolveRemoteCollisions(acc, remoteColliders, hasCallback) ==
    IF remoteColliders = <<>> THEN acc
    ELSE Let1(RemoteCollisionStep(acc, Head(remoteColliders), hasCallback), LAMBDA nxt :
             ResolveRemoteCollisions(nxt, Tail(remoteColliders), hasCallback))

\* updateProjectiles, first loop: move, world bounce or gravity, air damping.
Integrate(sphere, dt) ==
    LET moved  == [sphere EXCEPT !.center = VAdd(@, Step(sphere.velocity, dt))]
        result == WorldSphereIntersect(moved.center, moved.radius)
        bounced ==
            IF result.hit
            THEN [moved EXCEPT
                    !.velocity = AddScaledVector(@, result.normal,
                                     QDiv(-15 * Dot(result.normal, moved.velocity), 10)),
                    !.center = VAdd(@, MultiplyScalar(result.normal, result.depth))]
            ELSE [moved EXCEPT !.velocity[2] = @ - QDiv(GRAVITY * dt, 1000)]
        damping == ProjectileDamping(dt)
    IN  [bounced EXCEPT !.velocity =
            <<@[1] + QDiv(@[1] * damping, 1000000),
              @[2] + QDiv(@[2] * damping, 1000000),
              @[3] + QDiv(@[3] * damping, 1000000)>>]

\* An expiry test that never finds a sphere expired.
IsExpiredNever(sphere, t) == FALSE

\* updateProjectiles: isExpired = sphere.spawnTime && (age > sphere.lifetime)
\* with age = now - sphere.spawnTime.
IsExpired(sphere, t) == sphere.spawnTime # 0 /\ t - sphere.spawnTime > sphere.lifetime

\* updateProjectiles, the body of its first loop for one sphere, up to the
\* removal test.  Returns [sphere, body, contacts, remove, resolved, expired,
\* below]; resolved tells whether resolveSphereCollision bounced or pushed the
\* sphere, expired and below are the two halves of the removal test.
ProjectileStep(sphere, dt, body, remoteColliders, t) ==
    Let1(Integrate(sphere, dt), LAMBDA damped :
    Let1(ResolveSphereCollision(body, damped, t), LAMBDA local :
    Let1(IF remoteColliders # <<>>
         THEN ResolveRemoteCollisions([sphere |-> local.sphere, contacts |-> <<>>],
                                      remoteColliders, TRUE)
         ELSE [sphere |-> local.sphere, contacts |-> <<>>], LAMBDA remote :
        Let1(IsExpired(sphere, t), LAMBDA isExpired :
            [sphere |-> remote.sphere,
             body   |-> local.body,
             contacts |-> remote.contacts,
             resolved |-> local.sphere # damped,
             expired |-> isExpired,
             below |-> remote.sphere.center[2] < FloorBound,
             remove |-> remote.sphere.center[2] < FloorBound \/ isExpired]))))

\* A pair resolution that exchanges the velocities and leaves the centres.
SpherePairNoPush(ps, i, j) ==
    LET s1 == ps[i]
        s2 == ps[j]
        normal == Normalize(VSub(s1.center, s2.center))
        v1 == MultiplyScalar(normal, Dot(normal, s1.velocity))
        v2 == MultiplyScalar(normal, Dot(normal, s2.velocity))
    IN  IF DistanceToSquared(s1.center, s2.center)
              < (s1.radius + s2.radius) * (s1.radius + s2.radius)
        THEN [ps EXCEPT ![i] = [@ EXCEPT !.velocity = VSub(VAdd(@, v2), v1)],
                        ![j] = [@ EXCEPT !.velocity = VSub(VAdd(@, v1), v2)]]
        ELSE ps

\* resolveSpheresCollisions: the pair (i, j), i < j.
SpherePair(ps, i, j) ==
    LET s1 == ps[i]
        s2 == ps[j]
        d2 == DistanceToSquared(s1.center, s2.center)
        r  == s1.radius + s2.radius
        normal == Normalize(VSub(s1.center, s2.center))
        v1 == MultiplyScalar(normal, Dot(normal, s1.velocity))
        v2 == MultiplyScalar(normal, Dot(normal, s2.velocity))
        d  == QDiv(r - Sqrt(d2), 2)
    IN  IF d2 < r * r
        THEN [ps EXCEPT
                ![i] = [@ EXCEPT !.velocity = VSub(VAdd(@, v2), v1),
                                 !.center = AddScaledVector(@, normal, d)],
                ![j] = [@ EXCEPT !.velocity = VSub(VAdd(@, v1), v2),
                                 !.center = AddScaledVector(@, normal, -d)]]
        ELSE ps

\* Whether the pair (i, j) is in contact.
Touching(ps, i, j) ==
    DistanceToSquared(ps[i].center, ps[j].center)
        < (ps[i].radius + ps[j].radius) * (ps[i].radius + ps[j].radius)

\* The pairs in contact that the double loop has still to visit after (i, j).
PairsAfter(ps, i, j) ==
    {pr \in (1..Len(ps)) \X (1..Len(ps)) :
        /\ pr[1] < pr[2]
        /\ (pr[1] > i \/ (pr[1] = i /\ pr[2] > j))
        /\ Touching(ps, pr[1], pr[2])}

\* The first of them in loop order.
FirstPair(prs) ==
    CHOOSE pr \in prs :
        \A q \in prs : pr[1] < q[1] \/ (pr[1] = q[1] /\ pr[2] <= q[2])

\* resolveSpheresCollisions: the double loop changes nothing at a pair that is
\* not in contact, so it is run from one pair in contact to the next.
RECURSIVE SpheresFrom(_, _, _)
SpheresFrom(ps, i, j) ==
    Let1(PairsAfter(ps, i, j), LAMBDA prs :
        IF prs = {} THEN ps
        ELSE Let1(FirstPair(prs), LAMBDA pr :
                 Let1(SpherePair(ps, pr[1], pr[2]), LAMBDA nxt :
                     SpheresFrom(nxt, pr[1], pr[2]))))

ResolveSpheresCollisions(ps) == SpheresFrom(ps, 0, 0)

\* The contacts of the spheres at indices i, i-1, ..., 1, in that
\* order (the loop runs from the last sphere to the first).
RECURSIVE ContactsFrom(_, _)
ContactsFrom(st, idx) ==
    IF idx = {} THEN <<>>
    ELSE LET i == CHOOSE k \in idx : \A m \in idx : k >= m
         IN  st[i].contacts \o ContactsFrom(st, idx \ {i})

\* updateProjectiles(deltaTime, playerPhysics, remoteColliders) at time t.
\* The first loop treats each sphere on its own (resolveSphereCollision leaves
\* the body as it found it), then resolveSpheresCollisions runs on the spheres
\* that were kept.  Returns [ps, body, contacts, resolved, tests]; resolved
\* holds the id and age of every sphere the avatar bounced or pushed, tests the
\* outcome of the removal test of every sphere.
UpdateProjectiles(ps, dt, body, remoteColliders, t) ==
    Let1([i \in 1..Len(ps) |-> ProjectileStep(ps[i], dt, body, remoteColliders, t)] \o <<>>,
         LAMBDA st :
    Let1(SelectSeq(st, LAMBDA r : ~r.remove), LAMBDA kept :
    Let1([i \in 1..Len(kept) |-> kept[i].sphere] \o <<>>, LAMBDA left :
        [ps    |-> ResolveSpheresCollisions(left),
         body  |-> IF Len(ps) = 0 THEN body ELSE st[1].body,
         contacts |-> ContactsFrom(st, {i \in 1..Len(ps) : st[i].contacts # <<>>}),
         resolved |-> {[id |-> ps[i].id, age |-> t - ps[i].spawnTime] :
                          i \in {k \in 1..Len(ps) : st[k].resolved}},
         tests |-> {[id |-> ps[i].id, y |-> st[i].sphere.center[2],
                     expired |-> st[i].expired, below |-> st[i].below,
                     removed |-> st[i].remove] : i \in 1..Len(ps)}])))

\* A createProjectile that drops the newest sphere (pop) when over the limit.
CreateProjectilePop(ps, id, position, vel, t) ==
    LET pushed == Append(ps, Sphere(id, position, vel, t))
    IN  IF Len(pushed) > MaxProjectiles
        THEN [ps |-> SubSeq(pushed, 1, Len(pushed) - 1), evicted |-> <<pushed[Len(pushed)]>>]
        ELSE [ps |-> pushed, evicted |-> <<>>]

\* A createProjectile without the limit.
CreateProjectileUnlimited(ps, id, position, vel, t) ==
    [ps |-> Append(ps, Sphere(id, position, vel, t)), evicted |-> <<>>]

\* createProjectile(position, velocity, color) at time t: push, then shift
\* when the pool is over the limit.  Returns [ps, evicted].
CreateProjectile(ps, id, position, vel, t) ==
    LET pushed == Append(ps, Sphere(id, position, vel, t))
    IN  IF Len(pushed) > MaxProjectiles
        THEN [ps |-> Tail(pushed), evicted |-> <<Head(pushed)>>]
        ELSE [ps |-> pushed, evicted |-> <<>>]

(* ------------------------------------------------------------------ *)
(* Arithmetic of JavaScript numbers with NaN and the infinities         *)
(* ------------------------------------------------------------------ *)

IsNaN(x) == x = NaN

IsInf(x) == x \in {PosInf, NegInf}

\* The operators below take their arguments evaluated once.
XNeg(a) ==
    Let1(a, LAMBDA x :
        IF x = NaN THEN NaN ELSE IF x = PosInf THEN NegInf
        ELSE IF x = NegInf THEN PosInf ELSE -x)

\* a + b: NaN spreads, Infinity + -Infinity is NaN.
XAdd(a, b) ==
    Let1(<<a, b>>, LAMBDA p :
        IF IsNaN(p[1]) \/ IsNaN(p[2]) THEN NaN
        ELSE IF IsInf(p[1]) THEN (IF IsInf(p[2]) /\ p[1] # p[2] THEN NaN ELSE p[1])
        ELSE IF IsInf(p[2]) THEN p[2]
        ELSE p[1] + p[2])

XSub(a, b) == XAdd(a, XNeg(b))

\* The sign of a number that is not NaN.
XSign(a) ==
    IF a = PosInf THEN 1 ELSE IF a = NegInf THEN -1
    ELSE IF a > 0 THEN 1 ELSE IF a < 0 THEN -1 ELSE 0

\* a * b: NaN spreads, Infinity * 0 is NaN.
XMul(a, b) ==
    Let1(<<a, b>>, LAMBDA p :
        IF IsNaN(p[1]) \/ IsNaN(p[2]) THEN NaN
        ELSE IF IsInf(p[1]) \/ IsInf(p[2])
             THEN (IF XSign(p[1]) * XSign(p[2]) = 0 THEN NaN
                   ELSE IF XSign(p[1]) * XSign(p[2]) > 0 THEN PosInf ELSE NegInf)
        ELSE p[1] * p[2])

\* a / k for a finite k > 0.
XDivS(a, k) == Let1(a, LAMBDA x : IF IsFiniteNum(x) THEN QDiv(x, k) ELSE x)

\* a / k for a finite k > 0, rounded to the nearest step.
XDivR(a, k) ==
    Let1(a, LAMBDA x :
        IF ~IsFiniteNum(x) THEN x
        ELSE IF x >= 0 THEN (2 * x + k) \div (2 * k) ELSE -((2 * (-x) + k) \div (2 * k)))

\* The parameters s and t of the segments, in thousandths.
PScale == 1000

\* n / d in thousandths: 0 / 0 and Infinity / Infinity are NaN, x / 0 is an
\* infinity, x / Infinity is 0.
XRatio(n, d) ==
    Let1(<<n, d>>, LAMBDA p :
        IF IsNaN(p[1]) \/ IsNaN(p[2]) THEN NaN
        ELSE IF IsInf(p[1])
             THEN (IF IsInf(p[2]) THEN NaN
                   ELSE IF XSign(p[1]) * XSign(p[2]) < 0 THEN NegInf ELSE PosInf)
        ELSE IF IsInf(p[2]) THEN 0
        ELSE IF p[2] = 0
             THEN (IF p[1] = 0 THEN NaN ELSE IF p[1] > 0 THEN PosInf ELSE NegInf)
        ELSE IF p[2] > 0 THEN QDiv(p[1] * PScale, p[2])
        ELSE QDiv(-(p[1] * PScale), -p[2]))

\* a < b: false when either is NaN.
XLt(a, b) ==
    Let1(<<a, b>>, LAMBDA p :
        IF IsNaN(p[1]) \/ IsNaN(p[2]) THEN FALSE
        ELSE IF p[1] = p[2] THEN FALSE
        ELSE IF p[1] = NegInf \/ p[2] = PosInf THEN TRUE
        ELSE IF p[1] = PosInf \/ p[2] = NegInf THEN FALSE
        ELSE p[1] < p[2])

\* a <= b: false when either is NaN.
XLe(a, b) ==
    Let1(<<a, b>>, LAMBDA p :
        ~IsNaN(p[1]) /\ ~IsNaN(p[2]) /\ (p[1] = p[2] \/ XLt(p[1], p[2])))

\* Math.min and Math.max: NaN when either argument is NaN.
XMin(a, b) ==
    Let1(<<a, b>>, LAMBDA p :
        IF IsNaN(p[1]) \/ IsNaN(p[2]) THEN NaN ELSE IF XLt(p[1], p[2]) THEN p[1] ELSE p[2])

XMax(a, b) ==
    Let1(<<a, b>>, LAMBDA p :
        IF IsNaN(p[1]) \/ IsNaN(p[2]) THEN NaN ELSE IF XLt(p[2], p[1]) THEN p[1] ELSE p[2])

\* Math.max(0.0, Math.min(1.0, x)).
Clamp01(x) == XMax(0, XMin(PScale, x))

XVAdd(a, b) == <<XAdd(a[1], b[1]), XAdd(a[2], b[2]), XAdd(a[3], b[3])>>

XVSub(a, b) == <<XSub(a[1], b[1]), XSub(a[2], b[2]), XSub(a[3], b[3])>>

XDot2(a, b) == XAdd(XAdd(XMul(a[1], b[1]), XMul(a[2], b[2])), XMul(a[3], b[3]))

XDistanceToSquared(a, b) == Let1(XVSub(a, b), LAMBDA d : XDot2(d, d))

\* p.clone().addScaledVector(d, s), s in thousandths.
XAlong(p, d, s) ==
    <<XAdd(p[1], XDivR(XMul(d[1], s), PScale)),
      XAdd(p[2], XDivR(XMul(d[2], s), PScale)),
      XAdd(p[3], XDivR(XMul(d[3], s), PScale))>>

\* v.multiplyScalar(k) and addScaledVector with a fixed-point k.
XMultiplyScalar(v, k) ==
    <<XDivS(XMul(v[1], k), Scale), XDivS(XMul(v[2], k), Scale), XDivS(XMul(v[3], k), Scale)>>

XAddScaledVector(a, v, k) == XVAdd(a, XMultiplyScalar(v, k))

AnyNaN(v) == IsNaN(v[1]) \/ IsNaN(v[2]) \/ IsNaN(v[3])

\* Vector3.normalize = divideScalar(length() || 1): with a NaN coordinate the
\* length is NaN and the vector is divided by 1; with an infinite one the
\* length is Infinity, which turns it into NaN and the finite ones into 0.
XNormalize(v) ==
    Let1(v, LAMBDA w :
        IF Finite3(w) THEN Normalize(w)
        ELSE IF AnyNaN(w) THEN w
        ELSE [i \in 1..3 |-> IF IsInf(w[i]) THEN NaN ELSE 0] \o <<>>)

(* ------------------------------------------------------------------ *)
(* RemotePlayersManager: the registry                                   *)
(* ------------------------------------------------------------------ *)

\* The local user's id, and the ids of the other users.
Me == "me"

RemoteIds == {"u1", "u2", "u3"}

\* An initialPosition argument left undefined.
NoPosition == <<>>

\* players.has(userId).
HasPlayer(ps, userId) == \E i \in 1..Len(ps) : ps[i].userId = userId

\* An addPlayer that never creates an entity.
AddPlayerNever(ps, userId, username, initialPosition) == ps

\* Number(v || 0) of addPlayer and updatePlayer: NaN is falsy and becomes 0,
\* an infinity stays.
SafeNumber(x) == IF IsNaN(x) THEN 0 ELSE x

\* y - 1 of a number that is not NaN: an infinity stays.
OneBelow(y) == IF IsFiniteNum(y) THEN y - Scale ELSE y

SafePos(position) == <<SafeNumber(position[1]), SafeNumber(position[2]), SafeNumber(position[3])>>

\* An addPlayer without the check for a known id: the entity of a known id
\* is replaced by a fresh one.
AddPlayerReset(ps, userId, username, initialPosition) ==
    LET safePos == IF initialPosition = NoPosition THEN Zero3 ELSE SafePos(initialPosition)
        at == Vec(safePos[1], OneBelow(safePos[2]), safePos[3])
        fresh == [userId |-> userId, username |-> username,
                  meshPos |-> at, meshRot |-> 0,
                  targetPos |-> at, targetRot |-> 0,
                  radius |-> 0, justJoined |-> TRUE, report |-> "none"]
    IN  IF HasPlayer(ps, userId)
        THEN [i \in 1..Len(ps) |-> IF ps[i].userId = userId THEN fresh ELSE ps[i]]
        ELSE Append(ps, fresh)

\* addPlayer(userId, username, color, initialPosition): nothing when the id is
\* known; else the group and the target are put one unit below the position
\* given (the origin when none is given) and justJoined is set.  report is
\* "none" until updatePlayer is first called for the player, "first" from
\* then to the next update pass, "shown" afterwards (the properties refer to it).
AddPlayer(ps, userId, username, initialPosition) ==
    LET safePos == IF initialPosition = NoPosition THEN Zero3 ELSE SafePos(initialPosition)
        at == Vec(safePos[1], OneBelow(safePos[2]), safePos[3])
    IN  IF HasPlayer(ps, userId) THEN ps
        ELSE Append(ps, [userId |-> userId, username |-> username,
                         meshPos |-> at, meshRot |-> 0,
                         targetPos |-> at, targetRot |-> 0,
                         radius |-> 0, justJoined |-> TRUE, report |-> "none"])

\* An updatePlayer that leaves the targets as they were.
UpdatePlayerKeep(ps, userId, state) == ps

\* updatePlayer(userId, state): the target position and the target y rotation.
UpdatePlayer(ps, userId, state) ==
    [i \in 1..Len(ps) |->
        IF ps[i].userId = userId
        THEN [ps[i] EXCEPT
                !.targetPos = Vec(SafeNumber(state.position[1]),
                                  OneBelow(SafeNumber(state.position[2])),
                                  SafeNumber(state.position[3])),
                !.targetRot = state.rotation,
                !.report = IF @ = "none" THEN "first" ELSE @]
        ELSE ps[i]]

\* A removePlayer that removes nothing.
RemovePlayerKeep(ps, userId) == ps

\* removePlayer(userId).
RemovePlayer(ps, userId) == SelectSeq(ps, LAMBDA p : p.userId # userId)

\* LERP_FACTOR = 0.15, in hundredths.
LERP_FACTOR == 15

\* Math.PI in hundredths of a radian.
PI == 314

\* x += (v - x) * LERP_FACTOR on one coordinate; with an infinite x or v
\* the difference is infinite and Infinity - Infinity is NaN.
Lerp1(x, v) ==
    IF IsFiniteNum(x) /\ IsFiniteNum(v)
    THEN x + QDiv((v - x) * LERP_FACTOR, 100)
    ELSE XAdd(x, XDivS(XMul(XSub(v, x), LERP_FACTOR), 100))

\* Vector3.lerp(target, LERP_FACTOR).
Lerp(a, b) == <<Lerp1(a[1], b[1]), Lerp1(a[2], b[2]), Lerp1(a[3], b[3])>>

\* update(): the y rotation is moved along the shorter way round.
LerpAngle(currentY, targetRot) ==
    LET delta == targetRot - currentY
        down  == IF delta > PI THEN targetRot - 2 * PI ELSE targetRot
        targetY == IF delta < -PI THEN down + 2 * PI ELSE down
    IN  currentY + QDiv((targetY - currentY) * LERP_FACTOR, 100)

\* update(): the displayed position and rotation of one player after a pass.
Interpolate(p) ==
    IF p.justJoined
    THEN [p EXCEPT !.meshPos = p.targetPos, !.meshRot = p.targetRot,
                   !.justJoined = FALSE]
    ELSE [p EXCEPT !.meshPos = Lerp(p.meshPos, p.targetPos),
                   !.meshRot = LerpAngle(p.meshRot, p.targetRot)]

\* RemotePlayersManager.update(deltaTime): one pass over the registry.
RemoteUpdate(ps) ==
    [i \in 1..Len(ps) |->
        [Interpolate(ps[i]) EXCEPT !.report = IF @ = "first" THEN "shown" ELSE @]]

(* ------------------------------------------------------------------ *)
(* Game.jsx: the hit callback                                           *)
(* ------------------------------------------------------------------ *)

\* engine.onProjectileHit, the lookup: the Map key of the first player whose
\* username is the id received, "none" when there is none.
HitTarget(ps, targetUserId) ==
    LET idx == {i \in 1..Len(ps) : ps[i].username = targetUserId}
    IN  IF idx = {} THEN "none"
        ELSE ps[CHOOSE i \in idx : \A j \in idx : i <= j].userId

\* multiplayer.sendKnockback(targetId, impulse): a knockback message naming
\* the target, sent like the other broadcasts when there is a channel.
SendKnockback(out, targetId, impulse) ==
    IF channel = "none" THEN out
    ELSE Append(out, [event |-> "knockback", userId |-> Me,
                      targetId |-> targetId, impulse |-> impulse])

\* engine.onProjectileHit(targetUserId, impulse) for each call made during an
\* updateProjectiles call, in order; out is the list of messages sent.
RECURSIVE OnProjectileHits(_, _)
OnProjectileHits(out, contacts) ==
    IF contacts = <<>> THEN out
    ELSE LET c == Head(contacts)
             targetId == HitTarget(players, c.id)
         IN  OnProjectileHits(IF c.called /\ targetId # "none"
                              THEN SendKnockback(out, targetId, c.impulse)
                              ELSE out,
                              Tail(contacts))

\* What the contact log keeps of the contacts of an updateProjectiles call:
\* for each, the sphere, the player touched, the id the engine used, whether
\* the callback was called and the target id it then passed to
\* sendKnockback ("none" when it passed none).
LoggedContacts(contacts) ==
    [i \in 1..Len(contacts) |->
        [projectile |-> contacts[i].projectile,
         key    |-> contacts[i].key,
         id     |-> contacts[i].id,
         called |-> contacts[i].called,
         target |-> IF contacts[i].called
                    THEN HitTarget(players, contacts[i].id) ELSE "none"]]

(* ------------------------------------------------------------------ *)
(* Values after construction                                            *)
(* ------------------------------------------------------------------ *)

\* initGame before connect() is called: gameRef.current holds the engine only,
\* no promise, no timer, no animation frame requested.
\*   pc          where initGame stands: "init", "connect" (awaiting connect()),
\*               "running" (the game loop was started) or "failed" (its catch ran)
\*   promise     the promise connect() returns
\*   timeoutDue  when the connect timeout fires, -1 when not armed or cleared
\*   track       the channel.track call of the SUBSCRIBED branch
\*   gameRef     gameRef.current holds multiplayer, remotePlayers, controller
\*   retries     due times of the pending setTimeout(requestStateWithRetry)
\*   loop        an animation frame is requested
\*   connectedAt when the code after `await multiplayer.connect()` ran
\*   connectStart when connect() was called
\*   kicked      the removal notice was shown and onLogout() called
NoSession ==
    [pc |-> "init", promise |-> "none", timeoutDue |-> -1, track |-> "none",
     gameRef |-> FALSE, retries |-> {}, loop |-> FALSE, connectedAt |-> -1,
     connectStart |-> -1, kicked |-> FALSE]

\* initGame returned after a handshake that completed at time 0, its timers
\* have fired.
RunningSession ==
    [pc |-> "running", promise |-> "resolved", timeoutDue |-> -1, track |-> "done",
     gameRef |-> TRUE, retries |-> {}, loop |-> TRUE, connectedAt |-> 0,
     connectStart |-> 0, kicked |-> FALSE]

\* new MultiplayerManager(...): no channel, nothing sent.
InitNet ==
    /\ session = NoSession
    /\ inbox = <<>>
    /\ channel = "none"
    /\ lastBroadcastTime = 0
    /\ lastPosition = Zero3
    /\ presenceState = {}
    /\ sent = <<>>
    /\ timers = 0

\* initGame returned: multiplayer.connect() has set the channel.
InitSession ==
    /\ session = RunningSession
    /\ inbox = <<>>
    /\ channel = "open"
    /\ lastBroadcastTime = 0
    /\ lastPosition = Zero3
    /\ presenceState = {}
    /\ sent = <<>>
    /\ timers = 0

\* new PlayerPhysics(...) followed by physics.reset() in initGame.
InitBody ==
    /\ collider = SpawnCollider
    /\ velocity = Zero3
    /\ onFloor = FALSE

(* ------------------------------------------------------------------ *)
(* resolveSphereCollision on drawn inputs                               *)
(* ------------------------------------------------------------------ *)

\* Avatar velocities: at rest, walking, falling, walking away.
SphereAvatarVelocities == {Zero3, Vec(300, 0, 0), Vec(0, -200, 0), Vec(-300, 0, 0)}

\* Sphere centres around the spawn capsule: beside the lower end, above the
\* upper end, beside the middle, on the segment, diagonal, and out of reach.
SphereCenters ==
    {Vec(40, 500, 0), Vec(0, 600, 0), Vec(30, 532, 0), Vec(0, 530, 0),
     Vec(30, 590, 30), Vec(100, 500, 0)}

SphereVelocities ==
    {Zero3, Vec(-1000, 0, 0), Vec(1000, 0, 0), Vec(0, -500, 0), Vec(-9000, 0, 0)}

InitSphere ==
    /\ now = 0
    /\ collider = SpawnCollider
    /\ velocity \in SphereAvatarVelocities
    /\ onFloor \in BOOLEAN
    /\ \E c \in SphereCenters, v \in SphereVelocities :
           projectiles = <<Sphere(1, c, v, 0)>>
    /\ players = <<>>
    /\ InitNet
    /\ hitLog = <<>>
    /\ created = 1
    /\ steps = 0
    /\ last = NoOp

\* One call of a resolveSphereCollision definition on the drawn inputs.
ApplySphere(def, res) ==
    /\ last = NoOp
    /\ collider' = res.body.collider
    /\ velocity' = res.body.velocity
    /\ projectiles' = <<res.sphere>>
    /\ last' = [op |-> "resolveSphereCollision", def |-> def,
                colliderBefore |-> collider, velocityBefore |-> velocity,
                onFloorBefore |-> onFloor, sphereBefore |-> projectiles[1]]
    /\ UNCHANGED <<now, onFloor, players, netVars, hitLog, session, inbox, created, steps>>

CallResolveSphereCollision == ApplySphere(1, ResolveSphereCollision(Body, projectiles[1], now))

CallResolveSphereCollision2 == ApplySphere(2, ResolveSphereCollision2(Body, projectiles[1], now))

CallResolveSphereCollision3 == ApplySphere(3, ResolveSphereCollision3(Body, projectiles[1], now))

NextSphere ==
    \/ CallResolveSphereCollision
    \/ CallResolveSphereCollision2
    \/ CallResolveSphereCollision3

SpecSphere == InitSphere /\ [][NextSphere]_vars

\* C4: resolveSphereCollision never changes the local avatar: its capsule and
\* velocity (and on_floor flag) after the call are those before the call, for
\* every definition of resolveSphereCollision in the sources.
C4_AvatarKinematic ==
    last.op = "resolveSphereCollision" =>
        /\ collider = last.colliderBefore
        /\ velocity = last.velocityBefore
        /\ onFloor = last.onFloorBefore

(* ------------------------------------------------------------------ *)
(* The projectile pool                                                  *)
(* ------------------------------------------------------------------ *)

\* The clock when the session starts: one second after page load.
StartTime == 1000 * TicksPerMs

\* Largest number of updateProjectiles calls in a run of the pool model.
MaxPoolSteps == 1

\* Largest number of createProjectile calls in a run of the pool model.
MaxCreated == 102

\* Only the first FreeShots createProjectile calls draw their kind freely;
\* later ones are remote spawns on the grid.
FreeShots == 1

\* Clock ticks that pass before an updateProjectiles call reads the clock: one
\* substep, or a pause of 50 s (a hidden tab stops the animation frames).
PoolElapsed == {SubStepDelta * TicksPerMs, 50000 * TicksPerMs}

\* Where the k-th remote spawn appears: a grid 1 unit apart, 1 unit above ground.
GridPos(k) == Vec(-450 + 100 * (k % 10), 100, -450 + 100 * ((k \div 10) % 10))

\* A remote spawn just above the world floor bound, outside the ground, falling.
DeepSpawn == [position |-> Vec(6000, FloorBound + 10, 0), velocity |-> Vec(0, -2000, 0)]

\* Camera directions drawn for a shot.
ShootDirections == {Vec(0, 0, -Scale)}

\* Game.jsx onProjectileSpawn(data): createProjectile with the message's
\* position and velocity.
OnProjectileSpawn(data) ==
    LET res == CreateProjectile(projectiles, created + 1, data.position, data.velocity, now)
    IN  /\ projectiles' = res.ps
        /\ created' = created + 1
        /\ last' = [op |-> "createProjectile", by |-> "remote", newId |-> created + 1,
                    before |-> [i \in 1..Len(projectiles) |->
                                   <<projectiles[i].id, projectiles[i].spawnTime>>],
                    evicted |-> res.evicted]
        /\ UNCHANGED <<now, bodyVars, players, netVars, hitLog, session, inbox, steps>>

\* MultiplayerManager.broadcastProjectile: sends only with a channel.
BroadcastProjectile(position, vel) ==
    IF channel = "none" THEN sent
    ELSE Append(sent, [event |-> "projectile-spawn", position |-> position, velocity |-> vel])

\* PlayerController.shoot (first person): spawn 0.8 in front of the capsule
\* end, velocity = direction * 15 (no charge) + 2 * body velocity; the sphere
\* createProjectile returns is undefined, so owner is never written.
Shoot(direction) ==
    LET spawnPos == AddScaledVector(collider.end, direction, 80)
        vel == VAdd(MultiplyScalar(direction, 15 * Scale), MultiplyScalar(velocity, 2 * Scale))
        res == CreateProjectile(projectiles, created + 1, spawnPos, vel, now)
    IN  /\ projectiles' = res.ps
        /\ created' = created + 1
        /\ sent' = BroadcastProjectile(spawnPos, vel)
        /\ last' = [op |-> "createProjectile", by |-> "local", newId |-> created + 1,
                    before |-> [i \in 1..Len(projectiles) |->
                                   <<projectiles[i].id, projectiles[i].spawnTime>>],
                    evicted |-> res.evicted]
        /\ UNCHANGED <<now, bodyVars, players, channel, lastBroadcastTime, lastPosition,
                       presenceState, timers, hitLog, session, inbox, steps>>

\* One updateProjectiles call of the game loop, `elapsed` ticks after the last
\* clock reading, with the colliders of the current registry.  The hit
\* callback of Game.jsx runs inside the call for every onProjectileHit.
PoolUpdate(elapsed) ==
    \E res \in {UpdateProjectiles(projectiles, SubStepDelta, Body,
                                  GetRemoteColliders(players), now + elapsed)} :
        /\ now' = now + elapsed
        /\ projectiles' = res.ps
        /\ collider' = res.body.collider
        /\ velocity' = res.body.velocity
        /\ sent' = OnProjectileHits(sent, res.contacts)
        /\ hitLog' = hitLog \o LoggedContacts(res.contacts)
        /\ steps' = steps + 1
        /\ last' = [op |-> "updateProjectiles", contacts |-> res.contacts,
                    resolved |-> res.resolved, tests |-> res.tests]
        /\ UNCHANGED <<onFloor, players, channel, lastBroadcastTime, lastPosition,
                       presenceState, timers, created, session, inbox>>

InitPool ==
    /\ now = StartTime
    /\ InitBody
    /\ projectiles = <<>>
    /\ players = <<>>
    /\ InitSession
    /\ hitLog = <<>>
    /\ created = 0
    /\ steps = 0
    /\ last = NoOp

PoolSpawnGrid ==
    /\ created < MaxCreated
    /\ OnProjectileSpawn([position |-> GridPos(created), velocity |-> Zero3])

PoolSpawnDeep ==
    /\ created < FreeShots
    /\ OnProjectileSpawn(DeepSpawn)

PoolShoot ==
    /\ created < FreeShots
    /\ \E d \in ShootDirections : Shoot(d)

PoolStep ==
    /\ steps < MaxPoolSteps
    /\ \E e \in PoolElapsed : PoolUpdate(e)

NextPool ==
    \/ PoolSpawnGrid
    \/ PoolSpawnDeep
    \/ PoolShoot
    \/ PoolStep

SpecPool == InitPool /\ [][NextPool]_vars

\* The smallest spawn time among <<id, spawnTime>> pairs.
MinSpawn(before) ==
    CHOOSE m \in {before[i][2] : i \in 1..Len(before)} :
        \A i \in 1..Len(before) : m <= before[i][2]

\* C5: a createProjectile call made while 100 projectiles are live removes
\* exactly one projectile: the one inserted first among the live ones, whose
\* spawn_time is the smallest; never the new one, never any other.
C5_EvictsOldest ==
    (last.op = "createProjectile" /\ Len(last.before) = MaxProjectiles) =>
        /\ Len(last.evicted) = 1
        /\ last.evicted[1].id = last.before[1][1]
        /\ last.evicted[1].spawnTime = MinSpawn(last.before)
        /\ last.evicted[1].id # last.newId
        /\ [i \in 1..Len(projectiles) |-> projectiles[i].id]
             = [i \in 1..MaxProjectiles |->
                  IF i < MaxProjectiles THEN last.before[i + 1][1] ELSE last.newId]

\* C5 witness: an eviction from a full pool that earlier lost projectiles to
\* expiry or to the floor bound (the live ids are no longer 1..100).
C5_Witness ==
    /\ last.op = "createProjectile"
    /\ Len(last.before) = MaxProjectiles
    /\ Len(last.evicted) = 1
    /\ last.before[1][1] > 1
    /\ steps > 0

\* C6: the pool never holds more than 100 projectiles.
C6_PoolCapped == Len(projectiles) <= MaxProjectiles

\* C6 witness: a full pool right after a createProjectile call that evicted.
C6_Witness ==
    /\ Len(projectiles) = MaxProjectiles
    /\ last.op = "createProjectile"
    /\ Len(last.evicted) = 1

(* ------------------------------------------------------------------ *)
(* Projectiles against remote avatars                                   *)
(* ------------------------------------------------------------------ *)

\* Largest number of createProjectile calls in a run of the contact model.
MaxHitShots == 2

\* Largest number of updateProjectiles calls and update passes in a run of
\* the contact model.
MaxHitSteps == 3

\* The remote users of the contact model.  Display names are not unique:
\* u1 and u2 use the same one.
HitIds == {"u1", "u2"}

Username(u) == IF u = "u3" THEN "eve" ELSE "bob"

\* Positions a remote user reports (thousandths of a unit): standing either
\* side of the origin, and a step towards it.
HitReports(u) ==
    IF u = "u1" THEN {Vec(3000, 1000, 0), Vec(2600, 1000, 0)} ELSE {Vec(-3000, 1000, 0)}

\* Remote projectile spawns: next to either avatar, flying at it.
HitSpawns ==
    {[position |-> Vec(240, 100, 0), velocity |-> Vec(1000, 0, 0)],
     [position |-> Vec(-240, 100, 0), velocity |-> Vec(-1000, 0, 0)]}

\* A position of a message (thousandths of a unit) in fixed-point steps, and
\* back.
FromWire1(x) == IF IsFiniteNum(x) THEN QDiv(x * Scale, 1000) ELSE x

FromWire(v) == <<FromWire1(v[1]), FromWire1(v[2]), FromWire1(v[3])>>

ToWire(v) == <<QDiv(v[1] * 1000, Scale), QDiv(v[2] * 1000, Scale), QDiv(v[3] * 1000, Scale)>>

\* multiplayer.js 'player-move' listener and Game.jsx onPlayerMove(data): a
\* report of another user adds the player when unknown, then sets its target;
\* nothing happens while gameRef.current has no remotePlayers.  data.reply
\* tells whether the message answers a request-state of this client (the
\* properties refer to it; it is not in the message).
OnPlayerMove(data) ==
    /\ data.userId # Me
    /\ players' = IF ~session.gameRef THEN players
                  ELSE UpdatePlayer(AddPlayer(players, data.userId, data.username,
                                              FromWire(data.position)),
                                    data.userId,
                                    [position |-> FromWire(data.position),
                                     rotation |-> data.rotation])
    /\ last' = [op |-> "playerMove", userId |-> data.userId,
                known |-> HasPlayer(players, data.userId),
                position |-> FromWire(data.position), rotation |-> data.rotation,
                stored |-> session.gameRef, reply |-> data.reply]
    /\ UNCHANGED <<now, bodyVars, projectiles, netVars, hitLog, session, created, steps>>

\* Game.jsx gameLoop: remotePlayers.update(deltaTime).
RenderPass ==
    /\ players' = RemoteUpdate(players)
    /\ steps' = steps + 1
    /\ last' = [op |-> "update",
                first |-> {players[i].userId : i \in {k \in 1..Len(players) :
                                                         players[k].report = "first"}}]
    /\ UNCHANGED <<now, bodyVars, projectiles, netVars, hitLog, session, inbox, created>>

InitHit ==
    /\ now = StartTime
    /\ InitBody
    /\ projectiles = <<>>
    /\ players = <<>>
    /\ InitSession
    /\ hitLog = <<>>
    /\ created = 0
    /\ steps = 0
    /\ last = NoOp

HitMove ==
    \E u \in HitIds : \E pos \in HitReports(u) :
        /\ OnPlayerMove([userId |-> u, username |-> Username(u), position |-> pos,
                         rotation |-> 0, reply |-> FALSE])
        /\ UNCHANGED inbox

HitRender ==
    /\ steps < MaxHitSteps
    /\ RenderPass

HitSpawn ==
    /\ created < MaxHitShots
    /\ \E data \in HitSpawns : OnProjectileSpawn(data)

HitStep ==
    /\ steps < MaxHitSteps
    /\ PoolUpdate(SubStepDelta * TicksPerMs)

NextHit ==
    \/ HitMove
    \/ HitRender
    \/ HitSpawn
    \/ HitStep

SpecHit == InitHit /\ [][NextHit]_vars

\* Contacts i and j of the log are of the same projectile with the same id.
SamePair(i, j) ==
    /\ hitLog[i].projectile = hitLog[j].projectile
    /\ hitLog[i].id = hitLog[j].id

\* C1: for every projectile P and every remote id R, onProjectileHit is called
\* at most once for the pair (P, R) over the lifetime of P, however often P
\* comes to overlap R's capsule.
C1_OneKnockbackPerPair ==
    \A i, j \in 1..Len(hitLog) :
        (hitLog[i].called /\ hitLog[j].called /\ SamePair(i, j)) => i = j

\* C1 witness: a projectile that touched the same avatar in two
\* updateProjectiles calls, the callback being called for the first only.
C1_Witness ==
    \E i, j \in 1..Len(hitLog) :
        /\ i < j
        /\ SamePair(i, j)
        /\ hitLog[i].key = hitLog[j].key
        /\ hitLog[i].called
        /\ ~hitLog[j].called

\* C2: the first contact of a projectile P with a remote avatar R (a user id)
\* emits a knockback whose target is R's own user id, also when two avatars
\* use the same display name.
C2_FirstContactTargetsAvatar ==
    \A i \in 1..Len(hitLog) :
        (\A j \in 1..(i - 1) :
            ~(/\ hitLog[j].projectile = hitLog[i].projectile
              /\ hitLog[j].key = hitLog[i].key))
        => (hitLog[i].called /\ hitLog[i].target = hitLog[i].key)

(* ------------------------------------------------------------------ *)
(* PlayerPhysics: the body, and knockback messages                      *)
(* ------------------------------------------------------------------ *)

\* PlayerPhysics.update: the terminal speed, 50 units/s.
MaxSpeed == 50 * Scale

\* Math.exp(-4 * deltaTime) - 1 in millionths, for the substep lengths used.
PlayerDamping(dt) == IF dt = 10 THEN -39211 ELSE -4000 * dt

\* worldOctree.capsuleIntersect against the placeholder ground plane: the
\* plane is hit while the lower end is within radius above it and the capsule
\* is not wholly below; the result is the push-out vector, its length as
\* depth and its direction as normal.  A capsule resting on the plane is
\* within rounding of it: inside by less than a step (touch, the normal
\* points up) or exactly on it (the push-out vector is zero, and so is the
\* normal).
WorldCapsuleIntersect(c, touch) ==
    LET d1 == c.start[2] - c.radius
        d2 == c.end[2] - c.radius
    IN  IF /\ Abs(c.start[1]) <= GroundHalfSize
           /\ Abs(c.start[3]) <= GroundHalfSize
           /\ ~(d1 > 0 /\ d2 > 0)
           /\ ~(d1 < -c.radius /\ d2 < -c.radius)
        THEN [hit |-> TRUE,
              normal |-> IF Min(d1, d2) = 0 /\ ~touch THEN Zero3 ELSE Vec(0, Scale, 0),
              depth |-> Abs(Min(d1, d2))]
        ELSE [hit |-> FALSE, normal |-> Zero3, depth |-> 0]

\* Capsule.translate(v).
Translate(c, v) == [c EXCEPT !.start = VAdd(@, v), !.end = VAdd(@, v)]

\* PlayerPhysics.checkCollisions on b = [collider, velocity, onFloor].
CheckCollisions(b, touch) ==
    LET result == WorldCapsuleIntersect(b.collider, touch)
        vDotN  == Dot(result.normal, b.velocity)
    IN  IF result.hit
        THEN [collider |-> IF result.depth > 0
                           THEN Translate(b.collider,
                                          MultiplyScalar(result.normal, result.depth))
                           ELSE b.collider,
              velocity |-> IF vDotN < 0
                           THEN AddScaledVector(b.velocity, result.normal, -vDotN)
                           ELSE b.velocity,
              onFloor  |-> result.normal[2] > 0]
        ELSE [b EXCEPT !.onFloor = FALSE]

\* PlayerPhysics.update(deltaTime), deltaTime in ms.
PhysicsUpdate(b, dt, touch) ==
    LET damping == IF b.onFloor THEN PlayerDamping(dt) ELSE QDiv(PlayerDamping(dt), 10)
        fallen  == IF b.onFloor THEN b.velocity
                   ELSE [b.velocity EXCEPT ![2] = @ - QDiv(GRAVITY * dt, 1000)]
        damped  == <<fallen[1] + QDiv(fallen[1] * damping, 1000000),
                     fallen[2] + QDiv(fallen[2] * damping, 1000000),
                     fallen[3] + QDiv(fallen[3] * damping, 1000000)>>
        capped  == IF LengthSq(damped) > MaxSpeed * MaxSpeed
                   THEN MultiplyScalar(Normalize(damped), MaxSpeed)
                   ELSE damped
    IN  CheckCollisions([collider |-> Translate(b.collider, Step(capped, dt)),
                         velocity |-> capped,
                         onFloor  |-> b.onFloor], touch)

\* An applyImpulse that adds the impulse and leaves the on-floor flag alone.
ApplyImpulseKeepFloor(b, impulse) == [b EXCEPT !.velocity = VAdd(@, impulse)]

\* PlayerPhysics.applyImpulse(impulse) on b = [collider, velocity, onFloor].
ApplyImpulse(b, impulse) ==
    [b EXCEPT !.velocity = VAdd(@, impulse), !.onFloor = FALSE]

\* PlayerController.applyKnockback(impulse).
ApplyKnockback(b, impulse) == ApplyImpulse(b, Vec(impulse[1], impulse[2], impulse[3]))

\* Game.jsx multiplayer.onKnockback(data): the impulse goes to the controller.
OnKnockback(b, data) == ApplyKnockback(b, data.impulse)

\* A 'knockback' listener that hands every message to onKnockback.
KnockbackListenerAll(b, payload) == OnKnockback(b, payload)

\* The 'knockback' broadcast listener of MultiplayerManager: the message is
\* handed to onKnockback only on the client it names as its target.
KnockbackListener(b, payload) ==
    IF payload.targetId = Me THEN OnKnockback(b, payload) ELSE b

\* Game.jsx gameLoop, STEPS_PER_FRAME times physics.update(deltaTime) with no
\* key held, on b = [collider, velocity, onFloor].
RECURSIVE PhysicsSubsteps(_, _, _, _)
PhysicsSubsteps(b, dt, n, touch) ==
    IF n = 0 THEN b
    ELSE Let1(PhysicsUpdate(b, dt, touch), LAMBDA nxt :
             PhysicsSubsteps(nxt, dt, n - 1, touch))

\* Largest number of knockback messages delivered in a run of the body model.
MaxKnocks == 2

\* Largest number of frames in a run of the body model.
MaxKnockFrames == 14

\* Impulses knockback messages carry.
KnockImpulses == {Vec(1200, 900, 0), Vec(0, 1500, 0)}

\* Users knockback messages name as their target.
KnockTargets == {Me, "u1"}

FullBody == [collider |-> collider, velocity |-> velocity, onFloor |-> onFloor]

InitKnock ==
    /\ now = StartTime
    /\ InitBody
    /\ projectiles = <<>>
    /\ players = <<>>
    /\ InitSession
    /\ hitLog = <<>>
    /\ created = 0
    /\ steps = 0
    /\ last = NoOp

\* A knockback message arrives between two frames.
KnockReceive ==
    /\ created < MaxKnocks
    /\ \E target \in KnockTargets, impulse \in KnockImpulses :
         \E b \in {KnockbackListener(FullBody, [userId |-> "u1", targetId |-> target,
                                                impulse |-> impulse])} :
            /\ collider' = b.collider
            /\ velocity' = b.velocity
            /\ onFloor' = b.onFloor
            /\ created' = created + 1
            /\ last' = [op |-> "knockback", targetId |-> target, impulse |-> impulse,
                        colliderBefore |-> collider, velocityBefore |-> velocity,
                        onFloorBefore |-> onFloor]
            /\ UNCHANGED <<now, projectiles, players, netVars, hitLog, session, inbox, steps>>

\* One frame of the game loop with nothing but the body to move.
KnockFrame ==
    /\ steps < MaxKnockFrames
    /\ \E touch \in BOOLEAN :
       \E b \in {PhysicsSubsteps(FullBody, SubStepDelta, STEPS_PER_FRAME, touch)} :
            /\ collider' = b.collider
            /\ velocity' = b.velocity
            /\ onFloor' = b.onFloor
            /\ now' = now + MaxFrameDelta * TicksPerMs
            /\ steps' = steps + 1
            /\ last' = [op |-> "frame"]
            /\ UNCHANGED <<projectiles, players, netVars, hitLog, session, inbox, created>>

NextKnock ==
    \/ KnockReceive
    \/ KnockFrame

SpecKnock == InitKnock /\ [][NextKnock]_vars

\* C3: a knockback message changes the local body's velocity only when its
\* target id is the receiving client's own id; a knockback naming another id
\* leaves the body's velocity and on-floor flag (and capsule) as they were.
C3_KnockbackOnlyForTarget ==
    last.op = "knockback" =>
        /\ velocity # last.velocityBefore => last.targetId = Me
        /\ last.targetId # Me =>
              /\ velocity = last.velocityBefore
              /\ onFloor = last.onFloorBefore
              /\ collider = last.colliderBefore

\* C3 witness: a knockback naming another user reached a body standing on the
\* floor.
C3_Witness ==
    /\ last.op = "knockback"
    /\ last.targetId # Me
    /\ last.onFloorBefore
    /\ onFloor

\* C31: applyImpulse(v), reached by a knockback message that names this
\* client, leaves the velocity at the old velocity plus v, the on-floor flag
\* false and the capsule where it was, whatever the flag was before.  The
\* message handler is a step of its own (KnockReceive): the five substeps of a
\* frame are one synchronous loop (KnockFrame), so no impulse lands between two
\* of them.
C31_ImpulseAddsAndLifts ==
    (last.op = "knockback" /\ last.targetId = Me) =>
        /\ velocity = VAdd(last.velocityBefore, last.impulse)
        /\ ~onFloor
        /\ collider = last.colliderBefore

\* C31 witness: an impulse reached a body that stood on the floor.
C31_Witness ==
    /\ last.op = "knockback"
    /\ last.targetId = Me
    /\ last.onFloorBefore
    /\ ~onFloor
    /\ velocity = VAdd(last.velocityBefore, last.impulse)

(* ------------------------------------------------------------------ *)
(* PlayerPhysics.jump                                                   *)
(* ------------------------------------------------------------------ *)

\* The vertical speed a jump gives, 15 units/s, in steps.
JumpSpeed == 1500

\* A jump that does not ask whether the body stands on the floor.
JumpAlways(b) == [b EXCEPT !.velocity[2] = JumpSpeed]

\* PlayerPhysics.jump() on b = [collider, velocity, onFloor].
Jump(b) == IF b.onFloor THEN [b EXCEPT !.velocity[2] = JumpSpeed] ELSE b

\* PlayerController.update(deltaTime) with no movement key held: the body is
\* touched only by jump(), and only while Space is held.
ControllerUpdate(b, space) == IF space THEN Jump(b) ELSE b

\* Largest number of frames in a run of the jump model.
MaxJumpFrames == 16

\* One frame of the game loop: controller.update, then the substeps.
JumpFrame ==
    /\ steps < MaxJumpFrames
    /\ \E space \in BOOLEAN, touch \in BOOLEAN :
       \E jumped \in {ControllerUpdate(FullBody, space)} :
       \E b \in {PhysicsSubsteps(jumped, SubStepDelta, STEPS_PER_FRAME, touch)} :
            /\ collider' = b.collider
            /\ velocity' = b.velocity
            /\ onFloor' = b.onFloor
            /\ now' = now + MaxFrameDelta * TicksPerMs
            /\ steps' = steps + 1
            /\ last' = [op |-> "jumpFrame", space |-> space, before |-> FullBody,
                        jumped |-> jumped,
                        afterImpulse |-> (last.op = "knockback" /\ last.targetId = Me)]
            /\ UNCHANGED <<projectiles, players, netVars, hitLog, session, inbox, created>>

NextJump ==
    \/ KnockReceive
    \/ JumpFrame

SpecJump == InitKnock /\ [][NextJump]_vars

\* C32: jump() changes the body only when on-floor is true: velocity.y becomes
\* 15 and velocity.x, velocity.z, the capsule (and the flag) stay; when
\* on-floor is false, as it is right after applyImpulse, the body is left as
\* it was.
C32_JumpOnlyFromFloor ==
    (last.op = "jumpFrame" /\ last.space) =>
        /\ last.before.onFloor =>
              last.jumped = [last.before EXCEPT !.velocity[2] = JumpSpeed]
        /\ ~last.before.onFloor => last.jumped = last.before
        /\ last.afterImpulse => last.jumped = last.before

\* C32 witness: Space was held in a frame that began on the floor with some
\* other vertical speed, and the five substeps then lifted the body off.
C32_Witness ==
    /\ last.op = "jumpFrame"
    /\ last.space
    /\ last.before.onFloor
    /\ last.before.velocity[2] # JumpSpeed
    /\ last.jumped.velocity[2] = JumpSpeed
    /\ ~onFloor

(* ------------------------------------------------------------------ *)
(* MultiplayerManager.broadcastPosition                                 *)
(* ------------------------------------------------------------------ *)

\* Positions in position messages and in lastPosition are in thousandths of
\* a unit: the movement threshold 0.01.
MoveThreshold == 10

\* BROADCAST_INTERVAL_MS = 1000 / 30, in clock ticks.
BROADCAST_INTERVAL_MS == (1000 * TicksPerMs) \div 30

\* A broadcastPosition without the throttle.
TooSoonNever(t, lastT) == FALSE

\* now - this.lastBroadcastTime < BROADCAST_INTERVAL_MS.
TooSoon(t, lastT) == t - lastT < BROADCAST_INTERVAL_MS

\* A broadcastPosition without the movement test.
MovedAlways(pos, lastPos) == TRUE

\* A movement test with twice the threshold.
MovedCoarse(pos, lastPos) ==
    \/ Abs(pos[1] - lastPos[1]) > 2 * MoveThreshold
    \/ Abs(pos[2] - lastPos[2]) > 2 * MoveThreshold
    \/ Abs(pos[3] - lastPos[3]) > 2 * MoveThreshold

\* moved: the position is off the last one by more than the threshold on
\* some axis.
Moved(pos, lastPos) ==
    \/ Abs(pos[1] - lastPos[1]) > MoveThreshold
    \/ Abs(pos[2] - lastPos[2]) > MoveThreshold
    \/ Abs(pos[3] - lastPos[3]) > MoveThreshold

\* Two positions no further apart than the threshold on every axis.
WithinThreshold(a, b) ==
    /\ Abs(a[1] - b[1]) <= MoveThreshold
    /\ Abs(a[2] - b[2]) <= MoveThreshold
    /\ Abs(a[3] - b[3]) <= MoveThreshold

\* The fields of MultiplayerManager that broadcastPosition reads and writes.
Net == [channel |-> channel, lastBroadcastTime |-> lastBroadcastTime,
        lastPosition |-> lastPosition, sent |-> sent]

\* broadcastPosition(state, force) at time t.
BroadcastPosition(net, state, force, t) ==
    IF net.channel = "none" THEN net
    ELSE IF ~force /\ TooSoon(t, net.lastBroadcastTime) THEN net
    ELSE IF ~Moved(state.position, net.lastPosition) /\ ~force THEN net
    ELSE [net EXCEPT
            !.sent = Append(@, [event |-> "player-move", userId |-> Me,
                                position |-> state.position,
                                rotation |-> state.rotation,
                                timestamp |-> t, forced |-> force]),
            !.lastBroadcastTime = t,
            !.lastPosition = state.position]

\* Largest number of frames in a run of the broadcast model.
MaxNetFrames == 4

\* Largest number of request-state messages received in a run of it.
MaxNetRequests == 1

\* Clock ticks from one frame to the next: a 60 Hz frame, and a frame that
\* is one tick short of the broadcast interval.
NetElapsed == {50, 99}

\* Positions the controller reports (thousandths of a unit).
NetPositions == {Vec(0, 0, 0), Vec(6, 0, 0), Vec(12, 0, 0), Vec(7, 7, 7)}

\* One broadcastPosition call at time t; last keeps what the call was given,
\* whether it sent, the last position sent before it (<<>> when none), and
\* whether every call so far was within the threshold of the call before it.
CallBroadcast(pos, force, t) ==
    \E net \in {BroadcastPosition(Net, [position |-> pos, rotation |-> 0], force, t)} :
        /\ now' = t
        /\ channel' = net.channel
        /\ lastBroadcastTime' = net.lastBroadcastTime
        /\ lastPosition' = net.lastPosition
        /\ sent' = net.sent
        /\ last' = [op |-> "broadcastPosition", position |-> pos, force |-> force,
                    sentNow |-> Len(net.sent) > Len(sent),
                    lastSent |-> IF sent = <<>> THEN <<>> ELSE sent[Len(sent)].position,
                    creeping |-> \/ last.op = "none"
                                 \/ /\ last.creeping
                                    /\ WithinThreshold(pos, last.position)]
        /\ UNCHANGED <<bodyVars, projectiles, players, presenceState, timers, hitLog, session, inbox>>

InitNetSession ==
    /\ now = StartTime
    /\ InitBody
    /\ projectiles = <<>>
    /\ players = <<>>
    /\ InitSession
    /\ hitLog = <<>>
    /\ created = 0
    /\ steps = 0
    /\ last = NoOp

\* Game.jsx gameLoop, its last call: broadcastPosition(controller.getState()).
NetFrame ==
    /\ steps < MaxNetFrames
    /\ steps' = steps + 1
    /\ UNCHANGED created
    /\ \E elapsed \in NetElapsed, pos \in NetPositions :
         CallBroadcast(pos, FALSE, now + elapsed)

\* An onRequestState that broadcasts without force.
OnRequestStateUnforced(net, state, t) == BroadcastPosition(net, state, FALSE, t)

\* Game.jsx onRequestState(data): broadcastPosition(controller.getState(), true).
OnRequestState(net, state, t) == BroadcastPosition(net, state, TRUE, t)

\* The 'request-state' listener of MultiplayerManager.connect: requests of
\* other users go to onRequestState.
RequestStateListener(net, payload, state, t) ==
    IF payload.userId # Me THEN OnRequestState(net, state, t) ELSE net

\* Senders of request-state messages.
RequestSenders == {Me, "u1"}

\* A request-state message arrives while the controller is at pos.  last keeps
\* what CallBroadcast keeps, and the sender, whether there was a channel and
\* the time of the last broadcast before the message.
NetRequestState ==
    /\ created < MaxNetRequests
    /\ created' = created + 1
    /\ \E pos \in NetPositions, from \in RequestSenders :
         \E net \in {RequestStateListener(Net, [userId |-> from],
                                          [position |-> pos, rotation |-> 0], now)} :
            /\ channel' = net.channel
            /\ lastBroadcastTime' = net.lastBroadcastTime
            /\ lastPosition' = net.lastPosition
            /\ sent' = net.sent
            /\ last' = [op |-> "requestState", from |-> from, position |-> pos,
                        force |-> TRUE,
                        sentNow |-> Len(net.sent) > Len(sent),
                        lastSent |-> IF sent = <<>> THEN <<>>
                                     ELSE sent[Len(sent)].position,
                        creeping |-> FALSE,
                        connected |-> channel # "none",
                        lastTimeBefore |-> lastBroadcastTime]
    /\ UNCHANGED <<now, bodyVars, projectiles, players, presenceState, timers, hitLog, session, inbox,
                   steps>>

\* MultiplayerManager.disconnect: the channel is dropped.
NetDisconnect ==
    /\ channel = "open"
    /\ channel' = "none"
    /\ UNCHANGED <<now, bodyVars, projectiles, players, lastBroadcastTime, lastPosition,
                   presenceState, sent, timers, hitLog, session, inbox, created, steps, last>>

NextNet ==
    \/ NetFrame
    \/ NetRequestState
    \/ NetDisconnect

SpecNet == InitNetSession /\ [][NextNet]_vars

\* C7: calls with force = false send at most one position message within any
\* window of length BROADCAST_INTERVAL_MS: a message sent by such a call is at
\* least BROADCAST_INTERVAL_MS after every message sent before it.
C7_OnePerInterval ==
    \A i, j \in 1..Len(sent) :
        (i < j /\ ~sent[j].forced) =>
            sent[j].timestamp - sent[i].timestamp >= BROADCAST_INTERVAL_MS

\* C7 witness: three calls with force = false, each within the threshold of
\* the call before it, of which two sent, exactly BROADCAST_INTERVAL_MS apart.
C7_Witness ==
    /\ last.op = "broadcastPosition"
    /\ last.creeping
    /\ steps >= 3
    /\ created = 0
    /\ Len(sent) = 2
    /\ sent[2].timestamp - sent[1].timestamp = BROADCAST_INTERVAL_MS

\* C8: a call with force = false sends only if the position is off the last
\* position sent (not the last position passed) by more than 0.01 on some
\* axis; a call within 0.01 of the last position sent sends nothing.
C8_SendsOnlyWhenMoved ==
    /\ \A j \in 2..Len(sent) :
          ~sent[j].forced => ~WithinThreshold(sent[j].position, sent[j - 1].position)
    /\ (/\ last.op = "broadcastPosition"
        /\ ~last.force
        /\ last.lastSent # <<>>
        /\ WithinThreshold(last.position,
                           IF last.lastSent = <<>> THEN Zero3 ELSE last.lastSent))
       => ~last.sentNow

\* C8 witness: a call with force = false sent a position that is within the
\* threshold of the position passed by the call before it, which sent nothing.
C8_Witness ==
    /\ last.op = "broadcastPosition"
    /\ ~last.force
    /\ last.sentNow
    /\ last.creeping
    /\ Len(sent) >= 2

\* C34: when a broadcastPosition call with force = false returns, the channel
\* exists and at least BROADCAST_INTERVAL_MS has passed since the last send,
\* the last position sent (lastPosition, and the position of the last message)
\* is within 0.01 of the position given to the call on every axis; a call that
\* sent nothing leaves lastBroadcastTime and lastPosition as they were.
C34_FreshAfterInterval ==
    [][(/\ last'.op = "broadcastPosition"
        /\ ~last'.force
        /\ channel # "none"
        /\ now' - lastBroadcastTime >= BROADCAST_INTERVAL_MS)
       => /\ WithinThreshold(lastPosition', last'.position)
          /\ sent' # <<>> => WithinThreshold(sent'[Len(sent')].position, last'.position)
          /\ ~last'.sentNow => /\ lastBroadcastTime' = lastBroadcastTime
                               /\ lastPosition' = lastPosition
                               /\ sent' = sent]_vars

\* C34 witness: a call with force = false, a full interval after the last
\* message, was suppressed with a position that is not the one last sent.
C34_Witness ==
    /\ last.op = "broadcastPosition"
    /\ ~last.force
    /\ channel # "none"
    /\ sent # <<>>
    /\ now - lastBroadcastTime >= BROADCAST_INTERVAL_MS
    /\ ~last.sentNow
    /\ last.position # lastPosition
    /\ lastPosition = sent[Len(sent)].position
    /\ WithinThreshold(lastPosition, last.position)

(* ------------------------------------------------------------------ *)
(* Presence and position reports of remote users                        *)
(* ------------------------------------------------------------------ *)

\* Largest number of presence join events in a run of the presence model.
MaxJoins == 2

\* Largest number of update passes in a run of the presence model.
MaxRemoteRenders == 2

\* The remote users of the presence model.
PresenceIds == {"u1", "u2"}

\* What a remote user reports: a position (thousandths of a unit) and a y
\* rotation (hundredths of a radian).
RemoteReports ==
    {[position |-> Vec(3000, 1000, 0), rotation |-> 0],
     [position |-> Vec(0, 1000, 4000), rotation |-> 300]}

\* A 'leave' listener that does not look at the roster.
IsStillHereNever(state, userId) == FALSE

\* presence 'leave' listener: Object.keys(currentState).includes(userId).
IsStillHere(state, userId) == userId \in state

\* PlayerController.getState(): the position of the body and no rotation.
GetState == [position |-> ToWire(collider.end), rotation |-> 0]

InitRemote ==
    /\ now = StartTime
    /\ InitBody
    /\ projectiles = <<>>
    /\ players = <<>>
    /\ InitSession
    /\ hitLog = <<>>
    /\ created = 0
    /\ steps = 0
    /\ last = NoOp

\* presence 'join' listener and Game.jsx onPlayerJoin(presence): the roster
\* has the user; another user's entity is pre-created without a position and
\* two forced broadcasts are scheduled (500 ms and 1500 ms later).
PresenceJoin ==
    /\ created < MaxJoins
    /\ \E u \in PresenceIds :
        /\ u # Me
        /\ presenceState' = presenceState \cup {u}
        /\ players' = AddPlayer(players, u, Username(u), NoPosition)
        /\ timers' = timers + 2
        /\ created' = created + 1
        /\ last' = [op |-> "presenceJoin", userId |-> u,
                    known |-> HasPlayer(players, u)]
        /\ UNCHANGED <<now, bodyVars, projectiles, channel, lastBroadcastTime,
                       lastPosition, sent, hitLog, session, inbox, steps>>

\* A setTimeout callback of onPlayerJoin: broadcastPosition(getState(), true).
JoinTimer ==
    /\ timers > 0
    /\ timers' = timers - 1
    /\ \E net \in {BroadcastPosition(Net, GetState, TRUE, now)} :
        /\ lastBroadcastTime' = net.lastBroadcastTime
        /\ lastPosition' = net.lastPosition
        /\ sent' = net.sent
    /\ last' = [op |-> "joinTimer"]
    /\ UNCHANGED <<now, bodyVars, projectiles, players, channel, presenceState,
                   hitLog, session, inbox, created, steps>>

\* presence 'leave' listener and Game.jsx onPlayerLeave(presence): a leave
\* event for a user of the roster; the user has left it (gone) or only
\* replaced the presence.  The entity is removed when the roster read in the
\* listener does not have the user.
PresenceLeave ==
    \E u \in presenceState, gone \in BOOLEAN :
        \E currentState \in {IF gone THEN presenceState \ {u} ELSE presenceState} :
            /\ presenceState' = currentState
            /\ players' = IF IsStillHere(currentState, u) THEN players
                          ELSE RemovePlayer(players, u)
            /\ last' = [op |-> "presenceLeave", userId |-> u,
                        inRoster |-> u \in currentState,
                        playersBefore |-> players]
            /\ UNCHANGED <<now, bodyVars, projectiles, channel, lastBroadcastTime,
                           lastPosition, sent, timers, hitLog, session, inbox, created, steps>>

\* presence 'sync' listener and Game.jsx onPresenceSync(state): every other
\* user of the roster gets an entity, in the order of the roster's keys.
RECURSIVE AddAll(_, _)
AddAll(ps, ids) ==
    IF ids = <<>> THEN ps
    ELSE AddAll(AddPlayer(ps, Head(ids), Username(Head(ids)), NoPosition), Tail(ids))

PresenceSync ==
    /\ presenceState # {}
    /\ \E order \in {f \in [1..Cardinality(presenceState) -> presenceState] :
                        \A i, j \in DOMAIN f : f[i] = f[j] => i = j} :
        /\ players' = AddAll(players, SelectSeq(order, LAMBDA u : u # Me))
        /\ last' = [op |-> "presenceSync", order |-> order]
    /\ UNCHANGED <<now, bodyVars, projectiles, netVars, hitLog, session, inbox, created, steps>>

\* MultiplayerManager.disconnect(): the presence is untracked, the channel
\* removed and dropped.
Disconnect(ch) == "none"

\* Game.jsx onKick(data) on [players, channel, session]: the client named
\* disconnects, shows the notice and logs out; any other client removes the
\* entity of the user named.
OnKick(st, data) ==
    IF data.targetUserId = Me
    THEN [st EXCEPT !.channel = Disconnect(@), !.session.kicked = TRUE]
    ELSE [st EXCEPT !.players = RemovePlayer(@, data.targetUserId)]

\* The 'kick-event' listener: every kick message goes to onKick.
KickListener(st, payload) == OnKick(st, payload)

\* Users a kick message names: the local user, a user of the presence model
\* and a user who was never seen.
KickTargets == PresenceIds \cup {Me, "u3"}

\* A kick message arrives.
RemoteKick ==
    /\ channel = "open"
    /\ \E target \in KickTargets :
       \E st \in {KickListener([players |-> players, channel |-> channel,
                                 session |-> session],
                                [targetUserId |-> target, kickedBy |-> "u1"])} :
            /\ players' = st.players
            /\ channel' = st.channel
            /\ session' = st.session
            /\ last' = [op |-> "kick", targetUserId |-> target,
                        playersBefore |-> players, channelBefore |-> channel,
                        sessionBefore |-> session]
    /\ UNCHANGED <<now, bodyVars, projectiles, lastBroadcastTime, lastPosition,
                   presenceState, sent, timers, hitLog, inbox, created, steps>>

\* A position report of a remote user arrives.
RemoteMove ==
    \E u \in PresenceIds, r \in RemoteReports :
        /\ OnPlayerMove([userId |-> u, username |-> Username(u),
                         position |-> r.position, rotation |-> r.rotation,
                         reply |-> FALSE])
        /\ UNCHANGED inbox

RemoteRender ==
    /\ steps < MaxRemoteRenders
    /\ RenderPass

NextRemote ==
    \/ PresenceJoin
    \/ JoinTimer
    \/ PresenceLeave
    \/ PresenceSync
    \/ RemoteMove
    \/ RemoteRender

SpecRemote == InitRemote /\ [][NextRemote]_vars

\* C9: a presence leave event for X removes X's entity if and only if X is
\* absent from the roster read when the event is handled; a leave for a user
\* still in the roster leaves the registry as it was.
C9_LeaveChecksRoster ==
    last.op = "presenceLeave" =>
        /\ last.inRoster => players = last.playersBefore
        /\ ~last.inRoster =>
              /\ ~HasPlayer(players, last.userId)
              /\ players = RemovePlayer(last.playersBefore, last.userId)

\* C9 witness: a leave event for a user who is still in the roster and has an
\* entity, which stays.
C9_Witness ==
    /\ last.op = "presenceLeave"
    /\ last.inRoster
    /\ HasPlayer(last.playersBefore, last.userId)
    /\ HasPlayer(players, last.userId)

\* C10: the first position report applied after an entity's creation is shown
\* by snapping: after the next update pass the displayed position and
\* rotation are the reported target, also when the entity was created by a
\* presence join and update passes ran before the report arrived.
C10_FirstReportSnaps ==
    last.op = "update" =>
        \A i \in 1..Len(players) :
            players[i].userId \in last.first =>
                /\ players[i].meshPos = players[i].targetPos
                /\ players[i].meshRot = players[i].targetRot

(* ------------------------------------------------------------------ *)
(* initGame: the handshake and the catch-up requests                    *)
(* ------------------------------------------------------------------ *)

\* connect(): the timeout of the promise, 5000 ms.
ConnectTimeoutMs == 5000 * TicksPerMs

\* initGame: the delays of the two setTimeout(requestStateWithRetry, ...).
RetryDelays == {1000 * TicksPerMs, 2000 * TicksPerMs}

\* The clock advances in steps of 500 ms in the handshake model.
TickQuantum == 500 * TicksPerMs

\* Largest number of clock steps in a run of the handshake model.
MaxStartTicks == 15

\* Largest number of frames in a run of the handshake model.
MaxStartFrames == 1

\* Largest number of position messages other peers send in a run of it.
MaxPeerMessages == 1

\* The other peers of the handshake model.
StartPeers == {"u1"}

\* A requestState that does not look at the channel.
RequestStateAlways(out, t) ==
    Append(out, [event |-> "request-state", userId |-> Me, timestamp |-> t])

\* MultiplayerManager.requestState() at time t; out is the list of messages sent.
RequestState(out, t) ==
    IF channel = "none" THEN out
    ELSE Append(out, [event |-> "request-state", userId |-> Me, timestamp |-> t])

\* initGame requestStateWithRetry: requestState through gameRef.current.
RequestStateWithRetry(sess, out, t) ==
    IF sess.gameRef THEN RequestState(out, t) ELSE out

\* initGame after `await multiplayer.connect()`: the first request, the two
\* timers, the references, the first animation frame request.
AfterConnect(sess, out, t) ==
    [session |-> [sess EXCEPT !.pc = "running",
                              !.retries = {t + d : d \in RetryDelays},
                              !.gameRef = TRUE,
                              !.loop = TRUE,
                              !.connectedAt = t],
     sent    |-> RequestStateWithRetry(sess, out, t)]

\* resolve() of the promise of connect(): initGame goes on when it was pending.
Resolve(sess, out, t) ==
    IF sess.promise = "pending"
    THEN AfterConnect([sess EXCEPT !.promise = "resolved"], out, t)
    ELSE [session |-> sess, sent |-> out]

\* reject(...) of the promise of connect(): the catch of initGame runs when it
\* was pending.
Reject(sess) ==
    IF sess.promise = "pending"
    THEN [sess EXCEPT !.promise = "rejected", !.pc = "failed"]
    ELSE sess

InitStart ==
    /\ now = StartTime
    /\ InitBody
    /\ projectiles = <<>>
    /\ players = <<>>
    /\ InitNet
    /\ hitLog = <<>>
    /\ created = 0
    /\ steps = 0
    /\ last = NoOp

\* initGame calls multiplayer.connect(): the channel is created, the timeout
\* armed, the subscription requested.
StartConnect ==
    /\ session.pc = "init"
    /\ channel' = "open"
    /\ session' = [session EXCEPT !.pc = "connect", !.promise = "pending",
                                  !.timeoutDue = now + ConnectTimeoutMs,
                                  !.connectStart = now]
    /\ last' = [op |-> "connect"]
    /\ UNCHANGED <<now, bodyVars, projectiles, players, lastBroadcastTime, lastPosition,
                   presenceState, sent, timers, hitLog, inbox, created, steps>>

\* The subscribe callback with status SUBSCRIBED: the timeout is cleared and
\* channel.track(...) is called and awaited.
StatusSubscribed ==
    /\ session.pc # "init"
    /\ session.track = "none"
    /\ session' = [session EXCEPT !.timeoutDue = -1, !.track = "pending"]
    /\ last' = [op |-> "status", status |-> "SUBSCRIBED"]
    /\ UNCHANGED <<now, bodyVars, projectiles, players, netVars, hitLog, inbox, created,
                   steps>>

\* channel.track(...) returns or throws (the error is caught): resolve().
TrackReturns ==
    /\ session.track = "pending"
    /\ \E ok \in BOOLEAN :
       \E res \in {Resolve([session EXCEPT !.track = "done"], sent, now)} :
            /\ session' = res.session
            /\ sent' = res.sent
            /\ last' = [op |-> "track", ok |-> ok]
    /\ UNCHANGED <<now, bodyVars, projectiles, players, channel, lastBroadcastTime,
                   lastPosition, presenceState, timers, hitLog, inbox, created, steps>>

\* The subscribe callback with status CHANNEL_ERROR: the timeout is cleared
\* and the promise rejected.
StatusChannelError ==
    /\ session.pc # "init"
    /\ session' = Reject([session EXCEPT !.timeoutDue = -1])
    /\ last' = [op |-> "status", status |-> "CHANNEL_ERROR"]
    /\ UNCHANGED <<now, bodyVars, projectiles, players, netVars, hitLog, inbox, created,
                   steps>>

\* The subscribe callback with another status: neither branch is taken.
StatusOther ==
    /\ session.pc # "init"
    /\ \E status \in {"TIMED_OUT", "CLOSED"} :
         last' = [op |-> "status", status |-> status]
    /\ UNCHANGED <<now, bodyVars, projectiles, players, netVars, hitLog, session, inbox,
                   created, steps>>

\* The timeout callback of connect(): resolve().
ConnectTimeout ==
    /\ session.timeoutDue >= 0
    /\ now >= session.timeoutDue
    /\ \E res \in {Resolve([session EXCEPT !.timeoutDue = -1], sent, now)} :
            /\ session' = res.session
            /\ sent' = res.sent
    /\ last' = [op |-> "connectTimeout"]
    /\ UNCHANGED <<now, bodyVars, projectiles, players, channel, lastBroadcastTime,
                   lastPosition, presenceState, timers, hitLog, inbox, created, steps>>

\* A setTimeout(requestStateWithRetry, ...) callback of initGame.
RetryTimer ==
    /\ \E due \in session.retries :
        /\ now >= due
        /\ \A d \in session.retries : due <= d
        /\ sent' = RequestStateWithRetry(session, sent, now)
        /\ session' = [session EXCEPT !.retries = @ \ {due}]
        /\ last' = [op |-> "retry", due |-> due]
    /\ UNCHANGED <<now, bodyVars, projectiles, players, channel, lastBroadcastTime,
                   lastPosition, presenceState, timers, hitLog, inbox, created, steps>>

\* Time passes after connect() was called; a timer that is due fires before
\* more time passes.
StartTick ==
    /\ session.pc # "init"
    /\ now < StartTime + MaxStartTicks * TickQuantum
    /\ session.timeoutDue = -1 \/ now < session.timeoutDue
    /\ \A d \in session.retries : now < d
    /\ now' = now + TickQuantum
    /\ last' = [op |-> "tick"]
    /\ UNCHANGED <<bodyVars, projectiles, players, netVars, hitLog, session, inbox,
                   created, steps>>

\* gameLoop, one animation frame: the substeps of the body (no remote avatar
\* is within reach of it here and there is no projectile), the update pass,
\* the position broadcast, and the next frame request.
StartFrame ==
    /\ session.loop
    /\ steps < MaxStartFrames
    /\ \E touch \in BOOLEAN :
       \E b \in {PhysicsSubsteps(FullBody, SubStepDelta, STEPS_PER_FRAME, touch)} :
       \E net \in {BroadcastPosition(Net, [position |-> ToWire(b.collider.end),
                                            rotation |-> 0], FALSE, now)} :
            /\ collider' = b.collider
            /\ velocity' = b.velocity
            /\ onFloor' = b.onFloor
            /\ lastBroadcastTime' = net.lastBroadcastTime
            /\ lastPosition' = net.lastPosition
            /\ sent' = net.sent
    /\ players' = RemoteUpdate(players)
    /\ steps' = steps + 1
    /\ last' = [op |-> "frame"]
    /\ UNCHANGED <<now, projectiles, channel, presenceState, timers, hitLog, session,
                   inbox, created>>

\* The position message a peer u broadcasts (broadcastPosition at that peer).
PeerMessage(u, r, reply) ==
    [userId |-> u, username |-> Username(u), position |-> r.position,
     rotation |-> r.rotation, reply |-> reply]

\* A request-state of this client is delivered to a peer, whose
\* onRequestState broadcasts its position.
PeerAnswer ==
    /\ created < MaxPeerMessages
    /\ \E i \in 1..Len(sent) : sent[i].event = "request-state"
    /\ \E u \in StartPeers, r \in RemoteReports :
         inbox' = Append(inbox, PeerMessage(u, r, TRUE))
    /\ created' = created + 1
    /\ last' = [op |-> "peerAnswer"]
    /\ UNCHANGED <<now, bodyVars, projectiles, players, netVars, hitLog, session, steps>>

\* A peer broadcasts its position in its own game loop.
PeerMove ==
    /\ created < MaxPeerMessages
    /\ \E u \in StartPeers, r \in RemoteReports :
         inbox' = Append(inbox, PeerMessage(u, r, FALSE))
    /\ created' = created + 1
    /\ last' = [op |-> "peerMove"]
    /\ UNCHANGED <<now, bodyVars, projectiles, players, netVars, hitLog, session, steps>>

\* The 'player-move' listener receives the oldest message in flight; the
\* channel delivers broadcasts once it is subscribed.
DeliverMove ==
    /\ inbox # <<>>
    /\ session.track # "none"
    /\ OnPlayerMove(Head(inbox))
    /\ inbox' = Tail(inbox)

\* The channel loses the oldest message in flight.
LoseMove ==
    /\ inbox # <<>>
    /\ inbox' = Tail(inbox)
    /\ last' = [op |-> "lost"]
    /\ UNCHANGED <<now, bodyVars, projectiles, players, netVars, hitLog, session, created,
                   steps>>

NextStart ==
    \/ StartConnect
    \/ StatusSubscribed
    \/ TrackReturns
    \/ StatusChannelError
    \/ StatusOther
    \/ ConnectTimeout
    \/ RetryTimer
    \/ StartTick
    \/ StartFrame
    \/ PeerAnswer
    \/ PeerMove
    \/ DeliverMove
    \/ LoseMove

SpecStart == InitStart /\ [][NextStart]_vars

\* The entity of user u in the registry.
PlayerOf(ps, u) == ps[CHOOSE i \in 1..Len(ps) : ps[i].userId = u]

C12_RequestStateAnswered ==
    (last.op = "requestState" /\ last.from # Me /\ last.connected) =>
        /\ last.sentNow
        /\ sent[Len(sent)].event = "player-move"
        /\ sent[Len(sent)].userId = Me
        /\ sent[Len(sent)].position = last.position
        /\ sent[Len(sent)].timestamp = now

\* C12 witness: a request of another peer arrives within the broadcast
\* interval of the last message, with the position that message carried.
C12_Witness ==
    /\ last.op = "requestState"
    /\ last.from # Me
    /\ last.connected
    /\ last.lastSent = last.position
    /\ now - last.lastTimeBefore < BROADCAST_INTERVAL_MS
    /\ last.sentNow

\* A request-state message of this client with timestamp t was sent.
RequestedAt(t) ==
    \E i \in 1..Len(sent) : sent[i].event = "request-state" /\ sent[i].timestamp = t

\* C13: once the code after the handshake has run, and while the client stays
\* connected, a request-state message was sent at that moment, and one more
\* when each of the timers of 1 s and 2 s has fired.
C13_ThreeRequests ==
    (session.pc = "running" /\ channel = "open") =>
        /\ RequestedAt(session.connectedAt)
        /\ \A d \in RetryDelays :
              (session.connectedAt + d) \notin session.retries
                  => RequestedAt(session.connectedAt + d)

C15_ConnectSettles ==
    (session.pc # "init" /\ now > session.connectStart + ConnectTimeoutMs) =>
        /\ session.promise # "pending"
        /\ session.pc # "connect"

\* C16: after a transport failure of the handshake, the connect timeout or a
\* CHANNEL_ERROR status, the session goes on in local-only mode: the game loop
\* has been started.
C16_FailureStartsLoop ==
    (\/ last.op = "connectTimeout"
     \/ (last.op = "status" /\ last.status = "CHANNEL_ERROR")) =>
        /\ session.pc = "running"
        /\ session.loop

\* Kick messages among presence joins, presence syncs and position reports.
NextKick ==
    \/ PresenceJoin
    \/ JoinTimer
    \/ PresenceSync
    \/ RemoteMove
    \/ RemoteKick

SpecKick == InitRemote /\ [][NextKick]_vars

MaxShots == 2

\* Largest number of updateProjectiles calls in a run of the shooting model.
MaxShootSteps == 5

\* Camera directions of a shot: ahead, straight down, straight up, and ahead
\* and down (0.6, -0.8).
AimDirections == {Vec(0, 0, -Scale), Vec(0, -Scale, 0), Vec(0, Scale, 0), Vec(60, -80, 0)}

\* Time between two updateProjectiles calls: a substep, or 250 ms (a slow
\* frame), which is longer than the grace period.
ShootElapsed == {SubStepDelta * TicksPerMs, 250 * TicksPerMs}

\* Every projectile of this model is created by PlayerController.shoot.
InitShoot ==
    /\ now = StartTime
    /\ collider = SpawnCollider
    /\ velocity \in SphereAvatarVelocities
    /\ onFloor = FALSE
    /\ projectiles = <<>>
    /\ players = <<>>
    /\ InitSession
    /\ hitLog = <<>>
    /\ created = 0
    /\ steps = 0
    /\ last = NoOp

ShootFire ==
    /\ created < MaxShots
    /\ \E d \in AimDirections : Shoot(d)

ShootStep ==
    /\ steps < MaxShootSteps
    /\ \E e \in ShootElapsed : PoolUpdate(e)

NextShoot ==
    \/ ShootFire
    \/ ShootStep

SpecShoot == InitShoot /\ [][NextShoot]_vars

\* C18: a projectile created by the local player's shoot action is never
\* resolved against the local avatar (no bounce, no push-out) during the first
\* 200 ms after its spawn: every sphere an updateProjectiles call bounced or
\* pushed off the avatar is at least 200 ms old.
C18_GraceForOwnShots ==
    last.op = "updateProjectiles" =>
        \A r \in last.resolved : r.age >= GracePeriod

(* ------------------------------------------------------------------ *)
(* PlayerPhysics.resolvePlayerCollisions                                *)
(* ------------------------------------------------------------------ *)

\* A closest-point search that only looks from the first endpoint of the
\* first segment.
ClosestFromFirstEndpoint(p1, q1, p2, q2) ==
    Let1(ClosestPointToPoint(p2, q2, p1), LAMBDA c2 :
        [point1 |-> p1, point2 |-> c2, distSq |-> DistanceToSquared(p1, c2)])

\* _closestPointSegmentToSegment(p1, q1, p2, q2).  epsilon = 1e-6 is below
\* one step of a squared length, so `<= epsilon` is `<= 0`.
ClosestPointSegmentToSegment(p1, q1, p2, q2) ==
    Let1([d1 |-> XVSub(q1, p1), d2 |-> XVSub(q2, p2), r |-> XVSub(p1, p2)], LAMBDA v :
    Let1([a |-> XDot2(v.d1, v.d1), e |-> XDot2(v.d2, v.d2), f |-> XDot2(v.d2, v.r),
          c |-> XDot2(v.d1, v.r), b |-> XDot2(v.d1, v.d2)], LAMBDA k :
    Let1(XSub(XMul(k.a, k.e), XMul(k.b, k.b)), LAMBDA denom :
    Let1(IF denom # 0
         THEN Clamp01(XRatio(XSub(XMul(k.b, k.f), XMul(k.c, k.e)), denom))
         ELSE 0, LAMBDA s0 :
    Let1(XRatio(XAdd(XDivS(XMul(k.b, s0), PScale), k.f), k.e), LAMBDA t0 :
    Let1(IF XLe(k.a, 0) /\ XLe(k.e, 0) THEN <<p1, p2>>
         ELSE IF XLe(k.a, 0) THEN <<p1, XAlong(p2, v.d2, Clamp01(XRatio(k.f, k.e)))>>
         ELSE IF XLe(k.e, 0) THEN <<XAlong(p1, v.d1, Clamp01(XRatio(XNeg(k.c), k.a))), p2>>
         ELSE IF XLt(t0, 0)
              THEN <<XAlong(p1, v.d1, Clamp01(XRatio(XNeg(k.c), k.a))),
                     XAlong(p2, v.d2, 0)>>
         ELSE IF XLt(PScale, t0)
              THEN <<XAlong(p1, v.d1, Clamp01(XRatio(XSub(k.b, k.c), k.a))),
                     XAlong(p2, v.d2, PScale)>>
         ELSE <<XAlong(p1, v.d1, s0), XAlong(p2, v.d2, t0)>>, LAMBDA cs :
        [point1 |-> cs[1], point2 |-> cs[2],
         distSq |-> XDistanceToSquared(cs[1], cs[2])]))))))

\* PlayerPhysics.reset() on b = [collider, velocity, onFloor].
PhysicsReset(b) == [collider |-> SpawnCollider, velocity |-> Zero3, onFloor |-> FALSE]

\* The validation at the top of resolvePlayerCollisions: isNaN of the three
\* coordinates of collider.start.
LocalInvalid(b) == AnyNaN(b.collider.start)

\* The body of the loop of resolvePlayerCollisions for one remote collider
\* (the colliders of getRemoteColliders carry start and end).  st = [body,
\* tested, pushed]: tested lists the keys of the colliders that reached the
\* overlap test, pushed those that moved the local capsule.
PlayerCollisionStep(st, remote) ==
    Let1(ClosestPointSegmentToSegment(st.body.collider.start, st.body.collider.end,
                                      remote.start, remote.end), LAMBDA cp :
    Let1(st.body.collider.radius + remote.radius, LAMBDA minSeparation :
        IF AnyNaN(remote.start) THEN st
        ELSE IF IsNaN(cp.distSq) THEN st
        ELSE IF XLt(cp.distSq, minSeparation * minSeparation) /\ XLt(0, cp.distSq)
             THEN Let1(XNormalize(XVSub(cp.point1, cp.point2)), LAMBDA normal :
                  Let1(XMultiplyScalar(normal, minSeparation - Sqrt(cp.distSq)), LAMBDA push :
                  Let1(XDivS(XDot2(st.body.velocity, normal), Scale), LAMBDA vDotN :
                      IF AnyNaN(normal) THEN [st EXCEPT !.tested = Append(@, remote.key)]
                      ELSE [body |-> [st.body EXCEPT
                                        !.collider.start = XVAdd(@, push),
                                        !.collider.end = XVAdd(@, push),
                                        !.velocity = IF XLt(vDotN, 0)
                                                     THEN XAddScaledVector(@, normal, XNeg(vDotN))
                                                     ELSE @],
                            tested |-> Append(st.tested, remote.key),
                            pushed |-> Append(st.pushed, remote.key)])))
             ELSE [st EXCEPT !.tested = Append(@, remote.key)]))

RECURSIVE PlayerCollisionLoop(_, _)
PlayerCollisionLoop(st, remoteColliders) ==
    IF remoteColliders = <<>> THEN st
    ELSE Let1(PlayerCollisionStep(st, Head(remoteColliders)), LAMBDA nxt :
             PlayerCollisionLoop(nxt, Tail(remoteColliders)))

\* resolvePlayerCollisions(remoteColliders) on b = [collider, velocity,
\* onFloor].  Returns [body, tested, pushed, reset].
ResolvePlayerCollisions(b, remoteColliders) ==
    IF LocalInvalid(b)
    THEN [body |-> PhysicsReset(b), tested |-> <<>>, pushed |-> <<>>, reset |-> TRUE]
    ELSE Let1(PlayerCollisionLoop([body |-> b, tested |-> <<>>, pushed |-> <<>>],
                                  remoteColliders), LAMBDA st :
             [body |-> st.body, tested |-> st.tested, pushed |-> st.pushed, reset |-> FALSE])

\* Largest number of resolvePlayerCollisions calls in a run of this model.
MaxCollideSteps == 2

\* Local capsules at entry: at the spawn point, a step aside, and with a
\* coordinate that is NaN or infinite (start and end are always translated
\* together, so they share it).
CollideCapsules ==
    {SpawnCollider,
     [start |-> Vec(20, 500, 0), end |-> Vec(20, 565, 0), radius |-> PlayerRadius],
     [start |-> Vec(NaN, 500, 0), end |-> Vec(NaN, 565, 0), radius |-> PlayerRadius],
     [start |-> Vec(0, NaN, 0), end |-> Vec(0, NaN, 0), radius |-> PlayerRadius],
     [start |-> Vec(PosInf, 500, 0), end |-> Vec(PosInf, 565, 0), radius |-> PlayerRadius],
     [start |-> Vec(0, NegInf, 0), end |-> Vec(0, NegInf, 0), radius |-> PlayerRadius]}

\* Local velocities at entry: at rest, walking either way, falling.
CollideVelocities == {Zero3, Vec(300, 0, 0), Vec(-300, 0, 100), Vec(0, -200, 0)}

\* Mesh positions of a remote entity: overlapping the spawn capsule from
\* either side, on the same axis, out of reach, and non-finite (a report of
\* 1e999 or of a non-numeric string, copied to the mesh by update).
CollideMeshPositions ==
    {Vec(40, 465, 0), Vec(-30, 420, 30), Vec(0, 465, 0), Vec(500, 465, 0),
     Vec(NaN, 465, 0), Vec(40, PosInf, 0), Vec(40, 465, NegInf)}

\* A remote entity standing at mesh position at.
StandingAt(userId, at) ==
    [userId |-> userId, username |-> Username(userId),
     meshPos |-> at, meshRot |-> 0, targetPos |-> at, targetRot |-> 0,
     radius |-> 0, justJoined |-> FALSE, report |-> "shown"]

InitCollide ==
    /\ now = StartTime
    /\ collider \in CollideCapsules
    /\ velocity \in CollideVelocities
    /\ onFloor \in BOOLEAN
    /\ projectiles = <<>>
    /\ \/ players = <<>>
       \/ \E p \in CollideMeshPositions : players = <<StandingAt("u1", p)>>
       \/ \E p, q \in CollideMeshPositions :
              players = <<StandingAt("u1", p), StandingAt("u2", q)>>
    /\ InitSession
    /\ hitLog = <<>>
    /\ created = 0
    /\ steps = 0
    /\ last = NoOp

\* Game.jsx gameLoop, in a substep:
\* physics.resolvePlayerCollisions(remotePlayers.getRemoteColliders()).
CollideSubstep ==
    /\ steps < MaxCollideSteps
    /\ \E remoteColliders \in {GetRemoteColliders(players)} :
       \E res \in {ResolvePlayerCollisions(FullBody, remoteColliders)} :
            /\ collider' = res.body.collider
            /\ velocity' = res.body.velocity
            /\ onFloor' = res.body.onFloor
            /\ steps' = steps + 1
            /\ last' = [op |-> "resolvePlayerCollisions",
                        bodyBefore |-> FullBody,
                        colliders |-> [i \in 1..Len(remoteColliders) |->
                                          remoteColliders[i].key] \o <<>>,
                        tested |-> res.tested, pushed |-> res.pushed,
                        reset |-> res.reset]
    /\ UNCHANGED <<now, projectiles, players, netVars, hitLog, session, inbox, created>>

NextCollide == CollideSubstep

SpecCollide == InitCollide /\ [][NextCollide]_vars

\* Every coordinate of the capsule c is finite.
FiniteCapsule(c) == Finite3(c.start) /\ Finite3(c.end)

\* C19: if, at entry to resolvePlayerCollisions, any coordinate of the local
\* capsule (start or end) is NaN or an infinity, the call resets the body to
\* the spawn state and processes no remote collider.
C19_NonFiniteLocalResets ==
    (last.op = "resolvePlayerCollisions" /\ ~FiniteCapsule(last.bodyBefore.collider)) =>
        /\ last.reset
        /\ collider = SpawnCollider
        /\ velocity = Zero3
        /\ ~onFloor
        /\ last.tested = <<>>

\* The keys of the sequence ks.
Keys(ks) == {ks[i] : i \in 1..Len(ks)}

\* The ids of the registry entries with a non-finite position, and of the others.
NonFiniteIds == {players[i].userId : i \in {k \in 1..Len(players) : ~Finite3(players[k].meshPos)}}

FiniteIds == {players[i].userId : i \in {k \in 1..Len(players) : Finite3(players[k].meshPos)}}

\* C20: a remote entity whose position is non-finite never changes local
\* state: in a call that starts from a valid local body it is not among the
\* colliders the call resolves (it is left out of the list or skipped), every
\* other remote collider of the call still reaches the overlap test, and a
\* local capsule and velocity that were finite before the call are finite
\* after it.
C20_NonFiniteRemoteSkipped ==
    (last.op = "resolvePlayerCollisions" /\ ~last.reset) =>
        /\ Keys(last.tested) \cap NonFiniteIds = {}
        /\ Keys(last.pushed) \cap NonFiniteIds = {}
        /\ (FiniteCapsule(last.bodyBefore.collider) => FiniteIds \subseteq Keys(last.tested))
        /\ (FiniteCapsule(last.bodyBefore.collider) /\ Finite3(last.bodyBefore.velocity)) =>
               (FiniteCapsule(collider) /\ Finite3(velocity))

\* C20 witness: a call with a non-finite entity and an overlapping finite one:
\* the finite one pushed the local capsule, the other took no part.
C20_Witness ==
    /\ last.op = "resolvePlayerCollisions"
    /\ NonFiniteIds # {}
    /\ Keys(last.pushed) # {}
    /\ Keys(last.pushed) \subseteq FiniteIds
    /\ collider # last.bodyBefore.collider
    /\ FiniteCapsule(collider)

(* ------------------------------------------------------------------ *)
(* The lifetime of a projectile                                         *)
(* ------------------------------------------------------------------ *)

\* Largest number of projectiles created in a run of the lifetime model.
MaxLifeCreated == 2

\* Largest number of short frames in a run of the lifetime model; the long
\* ones are limited by the clock.
MaxLifeShortSteps == 3

\* Projectiles are created during the first second of the lifetime model.
LifeSpawnWindow == 1000 * TicksPerMs

\* Time between two updateProjectiles calls: a substep, or 7 s (a hidden tab).
LifeShort == SubStepDelta * TicksPerMs

LifeLong == 7000 * TicksPerMs

\* The clock value the lifetime model stops at: every projectile is past its
\* lifetime by then.
LifeHorizon == StartTime + LifeSpawnWindow + Lifetime + 2 * LifeLong

\* Spawns of the lifetime model: resting on the ground, falling onto it, and
\* falling beside it towards the world floor bound.
LifeSpawns ==
    {[position |-> Vec(0, 20, 0), velocity |-> Zero3],
     [position |-> Vec(100, 300, 0), velocity |-> Vec(0, -500, 0)],
     DeepSpawn}

InitLife == InitPool

LifeSpawn ==
    /\ created < MaxLifeCreated
    /\ now <= StartTime + LifeSpawnWindow
    /\ \E data \in LifeSpawns : OnProjectileSpawn(data)

\* A frame of the game loop shortly after the last one.
LifeStep ==
    /\ steps < MaxLifeShortSteps
    /\ now + LifeShort <= LifeHorizon
    /\ PoolUpdate(LifeShort)

\* A frame of the game loop long after the last one; steps counts the short
\* frames only.
LifePause ==
    /\ now + LifeLong <= LifeHorizon
    /\ \E res \in {UpdateProjectiles(projectiles, SubStepDelta, Body,
                                     GetRemoteColliders(players), now + LifeLong)} :
           /\ now' = now + LifeLong
           /\ projectiles' = res.ps
           /\ collider' = res.body.collider
           /\ velocity' = res.body.velocity
           /\ sent' = OnProjectileHits(sent, res.contacts)
           /\ hitLog' = hitLog \o LoggedContacts(res.contacts)
           /\ last' = [op |-> "updateProjectiles", contacts |-> res.contacts,
                       resolved |-> res.resolved, tests |-> res.tests]
    /\ UNCHANGED <<onFloor, players, channel, lastBroadcastTime, lastPosition,
                   presenceState, timers, created, steps, session, inbox>>

\* The game loop runs a frame: the clock part of LifeStep and LifePause.  A
\* step of NextLife is a frame exactly when it satisfies this.
LifeFrame ==
    \/ /\ steps < MaxLifeShortSteps
       /\ now + LifeShort <= LifeHorizon
       /\ now' = now + LifeShort
    \/ /\ now + LifeLong <= LifeHorizon
       /\ now' = now + LifeLong

NextLife ==
    \/ LifeSpawn
    \/ LifeStep
    \/ LifePause

SpecLife == InitLife /\ [][NextLife]_vars

\* requestAnimationFrame keeps calling gameLoop: a frame that can run does run.
SpecLifeFair == SpecLife /\ WF_now(LifeFrame)

\* The projectile created k-th is in the pool.
InPool(k) == \E i \in 1..Len(projectiles) : projectiles[i].id = k

\* What an updateProjectiles pass at time now leaves in the pool: nothing
\* older than the lifetime, nothing whose removal test found it below the
\* world floor bound, and exactly the spheres its test kept.
PassLeavesNoneDue ==
    last.op = "updateProjectiles" =>
        /\ \A i \in 1..Len(projectiles) : now - projectiles[i].spawnTime <= Lifetime
        /\ \A r \in last.tests :
              /\ (r.y < FloorBound) => r.removed
              /\ r.removed = ~InPool(r.id)

\* C21: after every updateProjectiles pass at time now, no projectile left in
\* the pool has now - spawn_time > 40000 ms or a centre below the world floor
\* bound (y < -50) as evaluated in that pass; and every projectile is
\* eventually removed as long as the simulation loop keeps running.
C21_ProjectilesExpire ==
    /\ []PassLeavesNoneDue
    /\ \A k \in 1..MaxLifeCreated : (InPool(k) ~> ~InPool(k))

\* C21 witness: a pass removed a projectile for its age alone, after every
\* projectile of the run had been created.
C21_Witness ==
    /\ last.op = "updateProjectiles"
    /\ \E r \in last.tests : r.expired /\ ~r.below /\ r.removed /\ ~InPool(r.id)
    /\ created = MaxLifeCreated

(* ------------------------------------------------------------------ *)
(* A peer that leaves, on an unordered channel                          *)
(* ------------------------------------------------------------------ *)

\* Largest number of position messages a peer sends in a run of this model.
MaxLateMoves == 2

\* The messages of user u in flight (inbox holds the position messages and
\* the presence leave events that were sent and not yet delivered).
InFlight(u, kind) == {i \in 1..Len(inbox) : inbox[i].userId = u /\ inbox[i].kind = kind}

\* User u is still connected: in the roster, its leave not yet under way.
Connected(u) == u \in presenceState /\ InFlight(u, "leave") = {}

\* The sequence q without its i-th element.
Without(q, i) == SubSeq(q, 1, i - 1) \o SubSeq(q, i + 1, Len(q))

\* The peers are in the roster when the session starts.
InitLate ==
    /\ now = StartTime
    /\ InitBody
    /\ projectiles = <<>>
    /\ players = <<>>
    /\ channel = "open"
    /\ lastBroadcastTime = 0
    /\ lastPosition = Zero3
    /\ presenceState = PresenceIds
    /\ sent = <<>>
    /\ timers = 0
    /\ session = RunningSession
    /\ inbox = <<>>
    /\ hitLog = <<>>
    /\ created = 0
    /\ steps = 0
    /\ last = NoOp

\* A connected peer broadcasts its position.
LatePeerMove ==
    /\ \E u \in PresenceIds, r \in RemoteReports :
        /\ Connected(u)
        /\ Cardinality(InFlight(u, "move")) < MaxLateMoves
        /\ created < 2 * MaxLateMoves
        /\ inbox' = Append(inbox, [kind |-> "move", userId |-> u, username |-> Username(u),
                                   position |-> r.position, rotation |-> r.rotation,
                                   reply |-> FALSE])
    /\ created' = created + 1
    /\ last' = [op |-> "peerMove"]
    /\ UNCHANGED <<now, bodyVars, projectiles, players, netVars, hitLog, session, steps>>

\* A connected peer leaves for good; its presence leave event is under way.
LatePeerLeave ==
    /\ \E u \in PresenceIds :
        /\ Connected(u)
        /\ inbox' = Append(inbox, [kind |-> "leave", userId |-> u, username |-> Username(u),
                                   position |-> Zero3, rotation |-> 0, reply |-> FALSE])
    /\ last' = [op |-> "peerLeave"]
    /\ UNCHANGED <<now, bodyVars, projectiles, players, netVars, hitLog, session, created,
                   steps>>

\* A position message in flight is delivered, whatever was sent before it:
\* the 'player-move' listener and onPlayerMove.
LateDeliverMove ==
    \E i \in 1..Len(inbox) :
        /\ inbox[i].kind = "move"
        /\ OnPlayerMove(inbox[i])
        /\ inbox' = Without(inbox, i)

\* A leave event in flight is delivered: the roster drops the user, then the
\* 'leave' listener and onPlayerLeave run.
LateDeliverLeave ==
    \E i \in 1..Len(inbox) :
        /\ inbox[i].kind = "leave"
        /\ \E currentState \in {presenceState \ {inbox[i].userId}} :
            /\ presenceState' = currentState
            /\ players' = IF IsStillHere(currentState, inbox[i].userId) THEN players
                          ELSE RemovePlayer(players, inbox[i].userId)
        /\ inbox' = Without(inbox, i)
        /\ last' = [op |-> "presenceLeave", userId |-> inbox[i].userId,
                    inRoster |-> FALSE, playersBefore |-> players]
        /\ UNCHANGED <<now, bodyVars, projectiles, channel, lastBroadcastTime,
                       lastPosition, sent, timers, hitLog, session, created, steps>>

NextLate ==
    \/ LatePeerMove
    \/ LatePeerLeave
    \/ LateDeliverMove
    \/ LateDeliverLeave

SpecLate == InitLate /\ [][NextLate]_vars

\* The channel delivers what is in flight.
SpecLateFair == SpecLate /\ WF_vars(LateDeliverMove) /\ WF_vars(LateDeliverLeave)

\* The peer u has left: it is absent from the roster and sends nothing more.
HasLeft(u) == u \notin presenceState

\* C22: every remote entity whose peer has left (absent from the roster and
\* sending nothing further) is eventually removed from the remote registry,
\* also when a position message of that peer is delivered after its leave
\* event.
C22_LeftPeerRemoved ==
    \A u \in PresenceIds : HasLeft(u) ~> (HasLeft(u) /\ ~HasPlayer(players, u))

(* ------------------------------------------------------------------ *)
(* The handlers of inbound messages and presence events                 *)
(* ------------------------------------------------------------------ *)

\* Every handler of Game.jsx that a message or a presence event reaches.
NextHandlers ==
    \/ PresenceJoin
    \/ PresenceLeave
    \/ PresenceSync
    \/ RemoteMove
    \/ RemoteKick
    \/ NetRequestState
    \/ KnockReceive
    \/ HitSpawn

SpecHandlers == InitRemote /\ [][NextHandlers]_vars

\* What the handlers other than onKnockback leave in `last`.
HandlerOps ==
    {"presenceJoin", "presenceLeave", "presenceSync", "playerMove", "kick",
     "requestState", "createProjectile"}

\* C23: handling an inbound network message or presence event mutates only
\* the remote-entity registry: the local body's capsule and velocity and the
\* projectile pool are unchanged by every handler other than the one of a
\* knockback message.
C23_HandlersKeepBodyAndPool ==
    [][(last'.op \in HandlerOps) =>
          /\ collider' = collider
          /\ velocity' = velocity
          /\ projectiles' = projectiles]_vars

(* ------------------------------------------------------------------ *)
(* Game.jsx: the effect, initGame across its awaits, and the cleanup   *)
(* ------------------------------------------------------------------ *)

\* In this part `session` holds the locals of the effect:
\*   pc          where initGame is: awaiting "loadMap", "preload" or "connect",
\*               "running" after its last statement, "failed" in its catch
\*   isRunning   the flag the cleanup clears
\*   frame       an animation frame is requested and not cancelled
\*   multiplayer the local `multiplayer` is set
\*   torn        the cleanup has run
\*   tornAt      pc when the cleanup ran, "none" before

\* Largest number of frames the game loop runs in a run of this model.
MaxTeardownFrames == 4

\* Largest number of shots in a run of this model.
MaxTeardownShots == 2

\* gameLoop with the guard removed.
LoopRunsAlways(sess) == TRUE

\* gameLoop: `if (!isRunning) return`.
LoopRuns(sess) == sess.isRunning

\* The effect has called initGame(), which has built the engine and waits
\* for engine.loadMap().
InitTeardown ==
    /\ now = StartTime
    /\ InitBody
    /\ projectiles = <<>>
    /\ players = <<>>
    /\ session = [pc |-> "loadMap", isRunning |-> TRUE, frame |-> FALSE,
                  multiplayer |-> FALSE, torn |-> FALSE, tornAt |-> "none"]
    /\ inbox = <<>>
    /\ channel = "none"
    /\ lastBroadcastTime = 0
    /\ lastPosition = Zero3
    /\ presenceState = {}
    /\ sent = <<>>
    /\ timers = 0
    /\ hitLog = <<>>
    /\ created = 0
    /\ steps = 0
    /\ last = NoOp

\* engine.loadMap() settles (a failure is caught and the placeholder world
\* built): physics, controller and remotePlayers are constructed, the body
\* reset, and initGame waits for remotePlayers.preloadModels().
TeardownMapLoaded ==
    /\ session.pc = "loadMap"
    /\ \E b \in {PhysicsReset(FullBody)} :
         /\ collider' = b.collider
         /\ velocity' = b.velocity
         /\ onFloor' = b.onFloor
    /\ session' = [session EXCEPT !.pc = "preload"]
    /\ last' = [op |-> "mapLoaded"]
    /\ UNCHANGED <<now, projectiles, players, netVars, hitLog, inbox, created, steps>>

\* preloadModels() resolves: the MultiplayerManager is constructed, the
\* callbacks set, and connect() called, which creates the channel.
TeardownPreloaded ==
    /\ session.pc = "preload"
    /\ session' = [session EXCEPT !.pc = "connect", !.multiplayer = TRUE]
    /\ channel' = "open"
    /\ last' = [op |-> "preloaded"]
    /\ UNCHANGED <<now, bodyVars, projectiles, players, lastBroadcastTime, lastPosition,
                   presenceState, sent, timers, hitLog, inbox, created, steps>>

\* connect() resolves: the code after the await runs to the first
\* requestAnimationFrame(gameLoop).  The state requests it sends are part of
\* the handshake model above.
TeardownConnected ==
    /\ session.pc = "connect"
    /\ session' = [session EXCEPT !.pc = "running", !.frame = TRUE]
    /\ last' = [op |-> "connected"]
    /\ UNCHANGED <<now, bodyVars, projectiles, players, netVars, hitLog, inbox, created,
                   steps>>

\* preloadModels() or connect() rejects: the catch of initGame.
TeardownFailed ==
    /\ session.pc \in {"preload", "connect"}
    /\ session' = [session EXCEPT !.pc = "failed"]
    /\ last' = [op |-> "initFailed"]
    /\ UNCHANGED <<now, bodyVars, projectiles, players, netVars, hitLog, inbox, created,
                   steps>>

\* A click: PlayerController.shoot.  controller.dispose() removes no
\* listener, so a click is still handled after the cleanup.
TeardownShoot ==
    /\ session.pc = "running"
    /\ created < MaxTeardownShots
    /\ \E d \in AimDirections : Shoot(d)

\* The substeps of one frame on st = [body, ps, contacts]: physics.update,
\* physics.resolvePlayerCollisions and engine.updateProjectiles, n times.
RECURSIVE FrameSubsteps(_, _, _, _, _)
FrameSubsteps(st, remoteColliders, t, touch, n) ==
    IF n = 0 THEN st
    ELSE Let1(PhysicsUpdate(st.body, SubStepDelta, touch), LAMBDA moved :
         Let1(ResolvePlayerCollisions(moved, remoteColliders).body, LAMBDA apart :
         Let1(UpdateProjectiles(st.ps, SubStepDelta,
                                [collider |-> apart.collider, velocity |-> apart.velocity],
                                remoteColliders, t), LAMBDA res :
             FrameSubsteps([body |-> [collider |-> res.body.collider,
                                      velocity |-> res.body.velocity,
                                      onFloor  |-> apart.onFloor],
                            ps |-> res.ps,
                            contacts |-> st.contacts \o res.contacts],
                           remoteColliders, t, touch, n - 1))))

\* The animation frame callback gameLoop: it returns at once when isRunning
\* is cleared; otherwise it runs the substeps, the remote update and the
\* broadcast, and requests the next frame.
TeardownFrame ==
    /\ session.frame
    /\ IF LoopRuns(session)
       THEN /\ steps < MaxTeardownFrames
            /\ \E touch \in BOOLEAN :
               \E remoteColliders \in {GetRemoteColliders(players)} :
               \E st \in {FrameSubsteps([body |-> FullBody, ps |-> projectiles,
                                         contacts |-> <<>>],
                                        remoteColliders, now + TickQuantum, touch,
                                        STEPS_PER_FRAME)} :
               \E net \in {BroadcastPosition(
                              [Net EXCEPT !.sent = OnProjectileHits(sent, st.contacts)],
                              [position |-> ToWire(st.body.collider.end), rotation |-> 0],
                              FALSE, now + TickQuantum)} :
                    /\ collider' = st.body.collider
                    /\ velocity' = st.body.velocity
                    /\ onFloor' = st.body.onFloor
                    /\ projectiles' = st.ps
                    /\ hitLog' = hitLog \o LoggedContacts(st.contacts)
                    /\ lastBroadcastTime' = net.lastBroadcastTime
                    /\ lastPosition' = net.lastPosition
                    /\ sent' = net.sent
            /\ now' = now + TickQuantum
            /\ players' = RemoteUpdate(players)
            /\ steps' = steps + 1
            /\ last' = [op |-> "frame", ran |-> TRUE]
            /\ UNCHANGED <<channel, presenceState, timers, session, inbox, created>>
       ELSE /\ session' = [session EXCEPT !.frame = FALSE]
            /\ last' = [op |-> "frame", ran |-> FALSE]
            /\ UNCHANGED <<now, bodyVars, projectiles, players, netVars, hitLog, inbox,
                           created, steps>>

\* The cleanup of the effect: isRunning is cleared, the requested frame
\* cancelled, and the components that exist by then are disposed; the
\* channel is disconnected when `multiplayer` is set.
TeardownCleanup ==
    /\ ~session.torn
    /\ session' = [session EXCEPT !.isRunning = FALSE, !.frame = FALSE, !.torn = TRUE,
                                  !.tornAt = session.pc]
    /\ channel' = IF session.multiplayer THEN Disconnect(channel) ELSE channel
    /\ last' = [op |-> "cleanup"]
    /\ UNCHANGED <<now, bodyVars, projectiles, players, lastBroadcastTime, lastPosition,
                   presenceState, sent, timers, hitLog, inbox, created, steps>>

NextTeardown ==
    \/ TeardownMapLoaded
    \/ TeardownPreloaded
    \/ TeardownConnected
    \/ TeardownFailed
    \/ TeardownShoot
    \/ TeardownFrame
    \/ TeardownCleanup

SpecTeardown == InitTeardown /\ [][NextTeardown]_vars

\* C24: once the cleanup of the effect has run, no frame of the game loop
\* runs its substeps: no physics step moves the body and no updateProjectiles
\* pass runs, also when the cleanup ran while initGame was waiting for the
\* map, the models or the channel.
C24_NoSubstepAfterTeardown ==
    [][session.torn =>
          /\ steps' = steps
          /\ (last'.op = "frame" => ~last'.ran)
          /\ collider' = collider
          /\ velocity' = velocity
          /\ \A i \in 1..Len(projectiles) :
                \A j \in 1..Len(projectiles') :
                    projectiles'[j].id = projectiles[i].id => projectiles'[j] = projectiles[i]]_vars

\* The cleanup ran while initGame waited for the channel; initGame went on to
\* request the first frame, and gameLoop returned without a substep, with a
\* projectile in the pool.
C24_Witness ==
    /\ session.torn
    /\ session.tornAt \in {"loadMap", "preload", "connect"}
    /\ session.pc = "running"
    /\ last.op = "frame"
    /\ ~last.ran
    /\ steps = 0
    /\ projectiles # <<>>

(* ------------------------------------------------------------------ *)
(* resolveRemoteCollisions on drawn inputs                              *)
(* ------------------------------------------------------------------ *)

\* Sphere centres around the capsule of an avatar standing at the origin:
\* beside it on either side of x and of z, diagonal, above its upper end, and
\* out of reach.
ImpulseCenters ==
    {Vec(40, 100, 0), Vec(-40, 100, 0), Vec(0, 100, 45), Vec(0, 100, -45),
     Vec(30, 100, 30), Vec(0, RemoteHeight + 10, 0), Vec(300, 100, 0)}

\* Sphere velocities: along x either way, along z, faster than the cap of 50,
\* at rest, oblique, and falling.
ImpulseVelocities ==
    {Vec(1000, 0, 0), Vec(-1000, 0, 0), Vec(0, 0, -1500), Vec(6000, 0, 0), Zero3,
     Vec(300, 400, 0), Vec(-2000, 0, 0), Vec(0, -500, 0)}

\* One avatar at the origin and one projectile next to it.
InitImpulse ==
    /\ now = StartTime
    /\ InitBody
    /\ \E c \in ImpulseCenters, v \in ImpulseVelocities :
          projectiles = <<Sphere(1, c, v, StartTime)>>
    /\ players = <<StandingAt("u1", Zero3)>>
    /\ InitSession
    /\ hitLog = <<>>
    /\ created = 1
    /\ steps = 0
    /\ last = NoOp

\* engine.resolveRemoteCollisions(sphere, remoteColliders) for the projectile,
\* with the hit callback of Game.jsx set.
ImpulseResolve ==
    /\ steps = 0
    /\ \E remoteColliders \in {GetRemoteColliders(players)} :
       \E res \in {ResolveRemoteCollisions([sphere |-> projectiles[1], contacts |-> <<>>],
                                           remoteColliders, TRUE)} :
            /\ projectiles' = <<res.sphere>>
            /\ sent' = OnProjectileHits(sent, res.contacts)
            /\ hitLog' = hitLog \o LoggedContacts(res.contacts)
            /\ last' = [op |-> "resolveRemoteCollisions",
                        velocityBefore |-> projectiles[1].velocity,
                        centerBefore |-> projectiles[1].center,
                        contacts |-> res.contacts]
    /\ steps' = 1
    /\ UNCHANGED <<now, bodyVars, players, channel, lastBroadcastTime, lastPosition,
                   presenceState, timers, session, inbox, created>>

NextImpulse == ImpulseResolve

SpecImpulse == InitImpulse /\ [][NextImpulse]_vars

\* C25: the knockback impulse emitted for a contact has magnitude
\* 15 + 0.5 * min(speed, 50), speed being the projectile's speed when the
\* contact is found, before the bounce (20 for velocity (10, 0, 0)); equal
\* here means within 0.5, which covers the rounding of the fixed-point
\* normalisation (1 % of a magnitude of at most 40).
C25_ImpulseFromSpeedAtContact ==
    last.op = "resolveRemoteCollisions" =>
        \A i \in 1..Len(last.contacts) :
            last.contacts[i].called =>
                Abs(Length(last.contacts[i].impulse)
                    - (15 * Scale + QDiv(Min(Length(last.velocityBefore), 50 * Scale), 2))) <= 50

(* ------------------------------------------------------------------ *)
(* resolveSpheresCollisions on drawn pairs                              *)
(* ------------------------------------------------------------------ *)

\* Centres of the second projectile; the first is at (0, 1, 0).  0.1 apart
\* along x either way, along y, along z, oblique in two and in three
\* coordinates, just inside contact, and out of contact.  The unit vector of
\* every line of centres drawn is exact in the fixed point.
PairCenters ==
    {Vec(10, 100, 0), Vec(-10, 100, 0), Vec(0, 110, 0), Vec(0, 100, 30), Vec(6, 108, 0),
     Vec(9, 112, 20), Vec(39, 100, 0), Vec(50, 100, 0)}

\* Velocities of the first and of the second projectile.
PairVelocities1 == {Zero3, Vec(500, 0, 0), Vec(-500, 0, 0), Vec(0, 300, -400)}

PairVelocities2 == {Zero3, Vec(-500, 0, 0), Vec(500, 0, 0), Vec(100, 200, 300)}

\* Two projectiles in the pool.
InitPairs ==
    /\ now = StartTime
    /\ InitBody
    /\ \E c \in PairCenters, v1 \in PairVelocities1, v2 \in PairVelocities2 :
          projectiles = <<Sphere(1, Vec(0, 100, 0), v1, StartTime),
                          Sphere(2, c, v2, StartTime)>>
    /\ players = <<>>
    /\ InitSession
    /\ hitLog = <<>>
    /\ created = 2
    /\ steps = 0
    /\ last = NoOp

\* engine.resolveSpheresCollisions() on the pool.
PairsResolve ==
    /\ steps = 0
    /\ projectiles' = ResolveSpheresCollisions(projectiles)
    /\ steps' = 1
    /\ last' = [op |-> "resolveSpheresCollisions", before |-> projectiles]
    /\ UNCHANGED <<now, bodyVars, players, netVars, hitLog, session, inbox, created>>

NextPairs == PairsResolve

SpecPairs == InitPairs /\ [][NextPairs]_vars

\* The distance of the centres of the two spheres of ps.
CenterDistance(ps) == Sqrt(DistanceToSquared(ps[1].center, ps[2].center))

\* Vectors a and b differ by at most eps in every coordinate.
Near(a, b, eps) ==
    /\ Abs(a[1] - b[1]) <= eps
    /\ Abs(a[2] - b[2]) <= eps
    /\ Abs(a[3] - b[3]) <= eps

\* C26: for two overlapping projectiles with distinct centres,
\* resolveSpheresCollisions moves the two by the same amount, half the
\* overlap, in opposite directions along the line of centres, so that the
\* centres end at least the sum of the radii apart; it exchanges the velocity
\* components along that line and leaves the sum of the velocities unchanged.
\* Positions are compared within 0.02, the distance within 0.05 and velocity
\* components within 0.1: the fixed-point products are truncated to 0.01 in
\* every coordinate of either centre.
C26_PairSeparatesAndExchanges ==
    (last.op = "resolveSpheresCollisions" /\ Touching(last.before, 1, 2)) =>
        LET b == last.before
            normal  == Normalize(VSub(b[1].center, b[2].center))
            r       == b[1].radius + b[2].radius
            overlap == r - CenterDistance(b)
            move1   == VSub(projectiles[1].center, b[1].center)
            move2   == VSub(projectiles[2].center, b[2].center)
        IN  /\ Near(move1, VNeg(move2), 2)
            /\ Near(move1, MultiplyScalar(normal, QDiv(overlap, 2)), 2)
            /\ CenterDistance(projectiles) >= r - 5
            /\ VAdd(projectiles[1].velocity, projectiles[2].velocity)
                  = VAdd(b[1].velocity, b[2].velocity)
            /\ Abs(Dot(normal, projectiles[1].velocity) - Dot(normal, b[2].velocity)) <= 10
            /\ Abs(Dot(normal, projectiles[2].velocity) - Dot(normal, b[1].velocity)) <= 10
            /\ Near(VSub(projectiles[1].velocity, b[1].velocity),
                    MultiplyScalar(normal, Dot(normal, VSub(b[2].velocity, b[1].velocity))), 10)

\* Two radius-0.2 projectiles 0.1 apart with equal and opposite velocities
\* have been resolved and are 0.4 apart.
C26_Witness ==
    /\ last.op = "resolveSpheresCollisions"
    /\ CenterDistance(last.before) = 10
    /\ last.before[1].velocity = Vec(500, 0, 0)
    /\ last.before[2].velocity = Vec(-500, 0, 0)
    /\ CenterDistance(projectiles) >= 2 * ProjectileRadius

(* ------------------------------------------------------------------ *)
(* _closestPointSegmentToSegment on drawn segments                      *)
(* ------------------------------------------------------------------ *)

\* Segments <<p, q>>: an upright one, parallel ones beside it, above it, on
\* its line and reversed on it, two of length zero, a level one next to it, an
\* oblique one, and one that crosses it.
Segments ==
    {<<Vec(0, 0, 0), Vec(0, 20, 0)>>,
     <<Vec(8, 0, 0), Vec(8, 20, 0)>>,
     <<Vec(6, 24, 8), Vec(6, 40, 8)>>,
     <<Vec(0, 30, 0), Vec(0, 40, 0)>>,
     <<Vec(0, 20, 0), Vec(0, 0, 0)>>,
     <<Vec(3, 4, 0), Vec(3, 4, 0)>>,
     <<Vec(0, 0, 0), Vec(0, 0, 0)>>,
     <<Vec(-10, 10, 5), Vec(10, 10, 5)>>,
     <<Vec(5, -5, -10), Vec(15, 15, 0)>>,
     <<Vec(-6, 8, -6), Vec(6, 8, 6)>>}

\* The two segments of the next call.
InitSegments ==
    /\ now = StartTime
    /\ InitBody
    /\ projectiles = <<>>
    /\ players = <<>>
    /\ InitSession
    /\ hitLog = <<>>
    /\ created = 0
    /\ steps = 0
    /\ \E s1 \in Segments, s2 \in Segments :
          last = [op |-> "segments", p1 |-> s1[1], q1 |-> s1[2],
                  p2 |-> s2[1], q2 |-> s2[2]]

\* _closestPointSegmentToSegment on the two segments, in both orders.
SegmentsClosest ==
    /\ steps = 0
    /\ \E fwd \in {ClosestPointSegmentToSegment(last.p1, last.q1, last.p2, last.q2)} :
       \E swp \in {ClosestPointSegmentToSegment(last.p2, last.q2, last.p1, last.q1)} :
          last' = [op |-> "closestPointSegmentToSegment",
                   p1 |-> last.p1, q1 |-> last.q1, p2 |-> last.p2, q2 |-> last.q2,
                   dist |-> Sqrt(fwd.distSq), swapped |-> Sqrt(swp.distSq)]
    /\ steps' = 1
    /\ UNCHANGED <<now, bodyVars, projectiles, players, netVars, hitLog, session, inbox,
                   created>>

NextSegments == SegmentsClosest

SpecSegments == InitSegments /\ [][NextSegments]_vars

\* The distance of point p from the segment a-b.
PointSegmentDistance(p, a, b) == Sqrt(DistanceToSquared(p, ClosestPointToPoint(a, b, p)))

\* C27: _closestPointSegmentToSegment gives the same distance when the two
\* segments are swapped, parallel segments included, and when a segment has
\* length zero the result is the distance of its first endpoint from the
\* other segment.  Distances are compared within 0.02, the rounding of the
\* closest points to steps of 0.01.
C27_ClosestDistanceSymmetric ==
    last.op = "closestPointSegmentToSegment" =>
        /\ Abs(last.dist - last.swapped) <= 2
        /\ (last.p1 = last.q1) =>
              Abs(last.dist - PointSegmentDistance(last.p1, last.p2, last.q2)) <= 2
        /\ (last.p2 = last.q2) =>
              Abs(last.dist - PointSegmentDistance(last.p2, last.p1, last.q1)) <= 2

\* Two parallel segments of different height have been compared in both
\* orders, and they are apart.
C27_Witness ==
    /\ last.op = "closestPointSegmentToSegment"
    /\ last.p1 = Vec(0, 0, 0)
    /\ last.q1 = Vec(0, 20, 0)
    /\ last.p2 = Vec(6, 24, 8)
    /\ last.dist > 0
    /\ last.dist = last.swapped

(* ------------------------------------------------------------------ *)
(* Position reports with non-finite coordinates                         *)
(* ------------------------------------------------------------------ *)

\* Largest number of update passes in a run of this model.
MaxCorruptRenders == 4

\* Positions of reports with an infinite coordinate (a number too large for
\* a double parses as Infinity).
CorruptPositions == {Vec(PosInf, 1000, 0), Vec(3000, NegInf, 0)}

\* A position report of user u1 with an infinite coordinate arrives.
CorruptMove ==
    \E pos \in CorruptPositions :
        /\ OnPlayerMove([userId |-> "u1", username |-> Username("u1"),
                         position |-> pos, rotation |-> 0, reply |-> FALSE])
        /\ UNCHANGED inbox

\* A position report of user u1 with finite coordinates arrives.
CorruptValidMove ==
    \E r \in RemoteReports :
        /\ OnPlayerMove([userId |-> "u1", username |-> Username("u1"),
                         position |-> r.position, rotation |-> r.rotation,
                         reply |-> FALSE])
        /\ UNCHANGED inbox

CorruptRender ==
    /\ steps < MaxCorruptRenders
    /\ RenderPass

NextCorrupt ==
    \/ CorruptMove
    \/ CorruptValidMove
    \/ CorruptRender

SpecCorrupt == InitRemote /\ [][NextCorrupt]_vars

\* Entity i of the registry has a collider in getRemoteColliders().
HasCollider(ps, i) ==
    \E k \in 1..Len(GetRemoteColliders(ps)) : GetRemoteColliders(ps)[k].key = ps[i].userId

\* C28: an update pass on an entity whose target is finite (its latest
\* report had finite coordinates) leaves the displayed position finite and
\* the entity among the colliders, whatever earlier reports carried.
C28_RecoversAfterValidReport ==
    [][(last'.op = "update") =>
          \A i \in 1..Len(players) :
              Finite3(players[i].targetPos) =>
                  /\ Finite3(players'[i].meshPos)
                  /\ HasCollider(players', i)]_vars

\* C29: an entity that was created from presence alone and has received no
\* position report has no collider in getRemoteColliders().
C29_PresenceOnlyNoCollider ==
    \A i \in 1..Len(players) : players[i].report = "none" => ~HasCollider(players, i)

\* C30: a presence join or a presence sync leaves every entity that exists
\* as it was (target position, displayed position and justJoined included)
\* and creates no second entity for an id.
C30_PresenceKeepsKnownEntities ==
    [][(last'.op \in {"presenceJoin", "presenceSync"}) =>
          /\ Len(players') >= Len(players)
          /\ \A i \in 1..Len(players) : players'[i] = players[i]
          /\ \A i, j \in 1..Len(players') :
                players'[i].userId = players'[j].userId => i = j]_vars

\* A presence join arrived for a user whose entity had been placed by an
\* update pass after a report.
C30_Witness ==
    /\ last.op = "presenceJoin"
    /\ last.known
    /\ \E i \in 1..Len(players) :
          /\ players[i].userId = last.userId
          /\ ~players[i].justJoined
          /\ players[i].report = "shown"
          /\ players[i].targetPos # Vec(0, -Scale, 0)

(* ------------------------------------------------------------------ *)
(* Events that carry the local user's id                                *)
(* ------------------------------------------------------------------ *)

\* Users the events of this model name: the local user and a remote one.
OwnIds == {Me, "u1"}

\* A presence 'join' listener that hands every presence to onPlayerJoin.
JoinListenerAll(ps, presence) ==
    AddPlayer(ps, presence.user_id, presence.username, NoPosition)

\* The presence 'join' listener on one presence, and the registry part of
\* onPlayerJoin: presences of other users get an entity without a position.
JoinListener(ps, presence) ==
    IF presence.user_id # Me
    THEN AddPlayer(ps, presence.user_id, presence.username, NoPosition)
    ELSE ps

\* A presence join event arrives; it may be the one of the local user's own
\* track().  onPlayerJoin, when called, schedules its two delayed broadcasts.
OwnPresenceJoin ==
    /\ created < MaxJoins
    /\ \E u \in OwnIds :
        /\ presenceState' = presenceState \cup {u}
        /\ players' = JoinListener(players, [user_id |-> u, username |-> Username(u)])
        /\ timers' = IF u # Me THEN timers + 2 ELSE timers
        /\ created' = created + 1
        /\ last' = [op |-> "presenceJoin", userId |-> u,
                    known |-> HasPlayer(players, u)]
        /\ UNCHANGED <<now, bodyVars, projectiles, channel, lastBroadcastTime,
                       lastPosition, sent, hitLog, session, inbox, steps>>

\* A player-move message arrives; the 'player-move' listener drops the ones
\* that carry the local user's id and hands the others to onPlayerMove.
OwnMove ==
    \E u \in OwnIds, r \in RemoteReports :
        \/ /\ OnPlayerMove([userId |-> u, username |-> Username(u),
                            position |-> r.position, rotation |-> r.rotation,
                            reply |-> FALSE])
           /\ UNCHANGED inbox
        \/ /\ u = Me
           /\ last' = [op |-> "playerMove", userId |-> u,
                       known |-> HasPlayer(players, u),
                       position |-> FromWire(r.position), rotation |-> r.rotation,
                       stored |-> FALSE, reply |-> FALSE]
           /\ UNCHANGED <<now, bodyVars, projectiles, players, netVars, hitLog, session,
                          inbox, created, steps>>

NextOwn ==
    \/ OwnPresenceJoin
    \/ JoinTimer
    \/ PresenceSync
    \/ PresenceLeave
    \/ OwnMove
    \/ RemoteKick

SpecOwn == InitRemote /\ [][NextOwn]_vars

\* C35: the local user's own id is never a key of the remote-entity registry,
\* after any sequence of position-update, presence join, presence sync, leave
\* and kick events, including events that carry the local user's id.
C35_OwnIdNeverInRegistry ==
    \A i \in 1..Len(players) : players[i].userId # Me

\* C35 witness: the local user is in the roster, a position update carrying
\* the local user's id has just been handled, and the registry holds the
\* entity of the other user.
C35_Witness ==
    /\ last.op = "playerMove"
    /\ last.userId = Me
    /\ Me \in presenceState
    /\ HasPlayer(players, "u1")
    /\ ~HasPlayer(players, Me)

(* ------------------------------------------------------------------ *)
(* PlayerPhysics.teleportIfOutOfBounds                                  *)
(* ------------------------------------------------------------------ *)

\* teleportIfOutOfBounds: the height at or below which the body is respawned,
\* y = -25, in steps.
FloorThreshold == -2500

\* PlayerController.update, third person: the camera is `height` above the
\* top of the capsule (2 units, in steps) and `dist` units behind it.
CameraHeight == 200

CameraDist == 4

\* (0, 0, 1) turned by camera.rotation, a unit vector in steps: level, looking
\* down (the camera is above) and looking up (the camera is below).
CameraBacks == {Vec(0, 0, 100), Vec(0, 60, 80), Vec(0, -60, 80)}

\* PlayerController.update, its camera part: camera.position after the call.
CameraPosition(b, isThirdPerson, back) ==
    IF isThirdPerson
    THEN VAdd(VAdd(b.collider.end, Vec(0, CameraHeight, 0)), MultiplyScalar(back, CameraDist * Scale))
    ELSE b.collider.end

\* teleportIfOutOfBounds(camera) on b = [collider, velocity, onFloor]; camera
\* is camera.position.
TeleportIfOutOfBounds(b, camera) ==
    IF camera[2] <= FloorThreshold
    THEN Let1(PhysicsReset(b), LAMBDA r :
             [body |-> r, camera |-> r.collider.end, reset |-> TRUE])
    ELSE [body |-> b, camera |-> camera, reset |-> FALSE]

\* The capsule is at or below the threshold: its upper end, where the
\* first-person camera sits, is.
BelowFloor(b) == b.collider.end[2] <= FloorThreshold

\* Game.jsx gameLoop, n substeps with no remote collider and no projectile:
\* physics.update, resolvePlayerCollisions, teleportIfOutOfBounds.  st keeps
\* the body, camera.position, the number of substeps whose check found the
\* capsule below the threshold, and the number of those that did not reset it.
RECURSIVE OobSubsteps(_, _, _)
OobSubsteps(st, touch, n) ==
    IF n = 0 THEN st
    ELSE Let1(PhysicsUpdate(st.body, SubStepDelta, touch), LAMBDA moved :
         Let1(ResolvePlayerCollisions(moved, <<>>).body, LAMBDA apart :
         Let1(TeleportIfOutOfBounds(apart, st.camera), LAMBDA tp :
             OobSubsteps([body |-> tp.body, camera |-> tp.camera,
                          below |-> st.below + (IF BelowFloor(apart) THEN 1 ELSE 0),
                          missed |-> st.missed
                                     + (IF BelowFloor(apart) /\ ~tp.reset THEN 1 ELSE 0),
                          resets |-> st.resets + (IF tp.reset THEN 1 ELSE 0)],
                         touch, n - 1))))

\* Largest number of frames in a run of the out-of-bounds model.
MaxOobFrames == 8

\* Bodies that walked off the ground plane and are falling past its edge.
OobStarts == {Vec(6000, -2300, 0), Vec(6000, -2100, 0), Vec(6000, -1900, 0), Vec(-5500, -2000, 700)}

OobVelocities == {Vec(0, -2500, 0), Vec(0, -3500, 0)}

InitOob ==
    /\ now = StartTime
    /\ \E p \in OobStarts, v \in OobVelocities :
         /\ collider = [start |-> p, end |-> VAdd(p, Vec(0, 65, 0)), radius |-> PlayerRadius]
         /\ velocity = v
    /\ onFloor = FALSE
    /\ projectiles = <<>>
    /\ players = <<>>
    /\ InitSession
    /\ hitLog = <<>>
    /\ created = 0
    /\ steps = 0
    /\ last = NoOp

\* One frame of the game loop with no key held: controller.update places the
\* camera, the five substeps run, the position is broadcast.
OobFrame ==
    /\ steps < MaxOobFrames
    /\ \E isThirdPerson \in BOOLEAN, back \in CameraBacks, touch \in BOOLEAN :
       \E st \in {OobSubsteps([body |-> FullBody,
                               camera |-> CameraPosition(FullBody, isThirdPerson, back),
                               below |-> 0, missed |-> 0, resets |-> 0],
                              touch, STEPS_PER_FRAME)} :
       \E net \in {BroadcastPosition(Net, [position |-> ToWire(st.body.collider.end),
                                           rotation |-> 0],
                                     FALSE, now + MaxFrameDelta * TicksPerMs)} :
            /\ collider' = st.body.collider
            /\ velocity' = st.body.velocity
            /\ onFloor' = st.body.onFloor
            /\ now' = now + MaxFrameDelta * TicksPerMs
            /\ channel' = net.channel
            /\ lastBroadcastTime' = net.lastBroadcastTime
            /\ lastPosition' = net.lastPosition
            /\ sent' = net.sent
            /\ steps' = steps + 1
            /\ last' = [op |-> "oobFrame", isThirdPerson |-> isThirdPerson,
                        below |-> st.below, missed |-> st.missed, resets |-> st.resets]
            /\ UNCHANGED <<projectiles, players, presenceState, timers, hitLog, session,
                           inbox, created>>

NextOob == OobFrame

SpecOob == InitOob /\ [][NextOob]_vars

\* C33: whenever the capsule is at or below y = -25 at the out-of-bounds check
\* of a substep, the body is reset to the spawn state in that same substep, in
\* first-person and in third-person view: no frame has a substep whose check
\* found the capsule that low and left it there.
C33_ResetInSameSubstep ==
    last.op = "oobFrame" => last.missed = 0

(* ------------------------------------------------------------------ *)
(* The send methods of MultiplayerManager after disconnect()            *)
(* ------------------------------------------------------------------ *)

\* Chat inputs: a message with a trailing blank, and a blank one.
ChatInputs == {"hi ", " "}

\* String.prototype.trim on the chat inputs.
Trim(message) == IF message = "hi " THEN "hi" ELSE IF message = " " THEN "" ELSE message

\* MultiplayerManager.sendChatMessage(message) at time t; out is the list of
\* messages sent.
SendChatMessage(out, message, t) ==
    IF channel = "none" \/ Trim(message) = "" THEN out
    ELSE Append(out, [event |-> "chat-message", userId |-> Me,
                      message |-> Trim(message), timestamp |-> t])

\* MultiplayerManager.kickPlayer(targetUserId) at time t.
KickPlayer(out, targetUserId, t) ==
    IF channel = "none" THEN out
    ELSE Append(out, [event |-> "kick-event", targetUserId |-> targetUserId,
                      kickedBy |-> Me, timestamp |-> t])

\* Largest number of chat and kick calls in a run of the send model.
MaxSendCalls == 1

\* Largest number of clock steps in a run of the send model.
MaxSendTicks == 2

\* initGame has just passed `await multiplayer.connect()`: the first
\* request-state is out and the two retry timers are pending.
InitSend ==
    /\ now = StartTime
    /\ InitBody
    /\ projectiles = <<>>
    /\ players = <<>>
    /\ channel = "open"
    /\ session = AfterConnect(RunningSession, <<>>, StartTime).session
    /\ inbox = <<>>
    /\ lastBroadcastTime = 0
    /\ lastPosition = Zero3
    /\ presenceState = {}
    /\ sent = AfterConnect(RunningSession, <<>>, StartTime).sent
    /\ timers = 0
    /\ hitLog = <<>>
    /\ created = 0
    /\ steps = 0
    /\ last = NoOp

\* Game.jsx handleSendMessage: sendChatMessage through gameRef.current.
SendChat ==
    /\ steps < MaxSendCalls
    /\ \E message \in ChatInputs :
        /\ sent' = IF session.gameRef THEN SendChatMessage(sent, message, now) ELSE sent
        /\ last' = [op |-> "sendChatMessage", message |-> message]
    /\ steps' = steps + 1
    /\ UNCHANGED <<now, bodyVars, projectiles, players, channel, lastBroadcastTime,
                   lastPosition, presenceState, timers, hitLog, session, inbox, created>>

\* Game.jsx handleKickPlayer of a master: kickPlayer through gameRef.current.
SendKick ==
    /\ steps < MaxSendCalls
    /\ \E target \in PresenceIds :
        /\ sent' = IF session.gameRef THEN KickPlayer(sent, target, now) ELSE sent
        /\ last' = [op |-> "kickPlayer", targetUserId |-> target]
    /\ steps' = steps + 1
    /\ UNCHANGED <<now, bodyVars, projectiles, players, channel, lastBroadcastTime,
                   lastPosition, presenceState, timers, hitLog, session, inbox, created>>

\* The end of a frame: broadcastPosition(controller.getState()).
SendPosition ==
    /\ \E net \in {BroadcastPosition(Net, GetState, FALSE, now)} :
        /\ channel' = net.channel
        /\ lastBroadcastTime' = net.lastBroadcastTime
        /\ lastPosition' = net.lastPosition
        /\ sent' = net.sent
    /\ last' = [op |-> "broadcastPosition", force |-> FALSE]
    /\ UNCHANGED <<now, bodyVars, projectiles, players, presenceState, timers, hitLog,
                   session, inbox, created, steps>>

\* A click: PlayerController.shoot, which calls broadcastProjectile.
SendShoot ==
    /\ created < MaxJoins
    /\ Shoot(Vec(0, 0, -Scale))

\* Time passes; a retry timer that is due fires before more time passes.
SendTick ==
    /\ now < StartTime + MaxSendTicks * TickQuantum
    /\ \A d \in session.retries : now < d
    /\ now' = now + TickQuantum
    /\ last' = [op |-> "tick"]
    /\ UNCHANGED <<bodyVars, projectiles, players, netVars, hitLog, session, inbox,
                   created, steps>>

\* MultiplayerManager.disconnect() has completed: this.channel = null.  last
\* keeps the timers that were pending then.
SendDisconnect ==
    /\ channel = "open"
    /\ channel' = Disconnect(channel)
    /\ last' = [op |-> "disconnect", retries |-> session.retries, timers |-> timers]
    /\ UNCHANGED <<now, bodyVars, projectiles, players, lastBroadcastTime, lastPosition,
                   presenceState, sent, timers, hitLog, session, inbox, created, steps>>

NextSend ==
    \/ SendChat
    \/ SendKick
    \/ SendPosition
    \/ SendShoot
    \/ PresenceJoin
    \/ JoinTimer
    \/ RetryTimer
    \/ SendTick
    \/ SendDisconnect

SpecSend == InitSend /\ [][NextSend]_vars

\* C36: once disconnect() has completed (the channel is null), no outbound
\* message of any kind is sent: every call of broadcastPosition (forced or
\* not), sendChatMessage, kickPlayer, broadcastProjectile and requestState,
\* the calls of timers scheduled before the disconnect included, leaves the
\* list of messages sent as it was.
C36_SilentAfterDisconnect ==
    [][channel = "none" => sent' = sent]_vars

\* C36 witness: a retry timer scheduled before the disconnect fired after it,
\* and the only request-state message is still the first one.
C36_Witness ==
    /\ channel = "none"
    /\ last.op = "retry"
    /\ session.retries # {}
    /\ Len(SelectSeq(sent, LAMBDA msg : msg.event = "request-state")) = 1

====
